---- MODULE Spec2Model ----
(***************************************************************************)
(* Model of the better_rover analysis scripts:                             *)
(*   src/src/access_point_classifier.py   (AccessPointClassifier, "APC")   *)
(*   src/src/co_traveler_analysis.py      (script, "CTA")                  *)
(*   src/src/flagged_signals_analysis.py  (main, "FSA")                    *)
(*   src/BR-Lite/FIDIM/static_aggregate.py (script, "SA")                  *)
(*   src/src/offline_map.py               (Map.load_coordinates)           *)
(*                                                                         *)
(* A DataFrame is a sequence of rows (records).  Coordinates are integers  *)
(* in units of one metre of arc (1/R radian), so that the great-circle     *)
(* distance of two points on one meridian is the difference of their       *)
(* latitudes in metres.  Floating-point results (weighted means) are kept  *)
(* as exact fractions [n, d].  A raw time is an integer: 1.. are parseable *)
(* instants (hours), 0 is text that does not parse.  An rssi cell holds    *)
(* its readings v and whether pandas read it as text (str): an empty cell  *)
(* (NaN) has no reading, a number has one, the text "-30|-50" has two.     *)
(* The "source file" column is carried through by the code untouched and   *)
(* is left out.                                                            *)
(***************************************************************************)
EXTENDS Integers, Sequences, FiniteSets, TLC

VARIABLES
    df,                 \* the frame read from the merged CSV files
    pc,                 \* the step the running script is at
    frame,              \* the script's working frame after preprocessing
    classified,         \* the list of per-group classification results
    static_groups,      \* CTA: the groups classified static
    cotraveler_groups,  \* CTA: the groups classified co-traveler
    static_df,          \* CTA: best-guess coordinates of the static groups
    categorized,        \* CTA: the categorized-signals table
    results,            \* FSA: the flagged-signal records
    aggregated_records, \* SA: the aggregated static signals
    cr_records,         \* cluster_records: its argument records, by index label
    threshold,          \* cluster_records: the merge distance
    indices,            \* cluster_records: the labels not yet in a cluster
    cluster,            \* cluster_records: the labels of the cluster being built
    clusters,           \* cluster_records: the clusters closed so far
    center_lat,         \* cluster_records: the centre the next pass measures from
    center_lon,
    changed,            \* cluster_records: the last pass added a member
    passes,             \* history: the passes made for the cluster being built
    unassigned,         \* history: the worklist length when its seed was taken
    coordinates_df,     \* APC: the frame Map.load_coordinates keeps
    aggregated_markers, \* CTA: the markers of Step 8
    todo,               \* CTA: the co-traveler groups Step 8 has yet to cluster
    call,               \* which call of cluster_records is running
    previous,           \* history: the clusters the first call returned
    order               \* history: the first call's label of each record

\* the locals of cluster_records and the two history variables
cluster_vars == <<cr_records, threshold, indices, cluster, clusters,
                  center_lat, center_lon, changed, passes, unassigned>>

\* what the map-building steps of the two classifiers write
map_vars == <<coordinates_df, aggregated_markers, todo>>

\* the call of cluster_records under way and what is kept of the call before
call_vars == <<call, previous, order>>

vars == <<df, pc, frame, classified, static_groups, cotraveler_groups,
          static_df, categorized, results, aggregated_records, cluster_vars,
          map_vars, call_vars>>

---------------------------------------------------------------------------
(* Bounds of the model. *)

\* the largest number of rows read from the CSV files
MaxRecords == 3

\* the largest detection count and the longest time range (in hours) of a
\* group given to the confidence score alone
MaxCount == 22

MaxHours == 13

\* the largest number of rows given to cluster_records alone
MaxCluster == 4

---------------------------------------------------------------------------
(* Values. *)

\* pandas' missing value in a text column (an empty CSV field)
NaN == "NaN"

\* pandas' missing timestamp: the result of to_datetime(errors="coerce") on
\* text that does not parse
NaT == -1

\* Python's None, the default of max_dist in classify
None == -1

\* the empty string written into lat/lon and best_lat/best_lon
Empty == [kind |-> "empty", n |-> 0, d |-> 1]

\* a number n/d
Num(n, d) == [kind |-> "num", n |-> n, d |-> d]

COTRAVELER_DIST_THRESHOLD == 1000

STATIC_AP_DIST_THRESHOLD == 300

\* static_aggregate.py: "Only include groups where max distance is <= 200"
SA_STATIC_THRESHOLD == 200

\* flagged_signals_analysis.py: "Only flag MAC addresses detected over at
\* least 300m"
FLAG_THRESHOLD == 300

\* offline_map.py: latitudes beyond 90 degrees and longitudes beyond 180
\* degrees are invalid; in metres of arc
LAT_LIMIT == 10007543

LON_LIMIT == 20015087

Abs(x) == IF x < 0 THEN -x ELSE x

\* floor of the square root of x, searched between lo and hi
RECURSIVE ISqrtIn(_, _, _)
ISqrtIn(x, lo, hi) ==
    IF lo >= hi THEN lo
    ELSE LET mid == (lo + hi + 1) \div 2
         IN  IF mid * mid <= x THEN ISqrtIn(x, mid, hi) ELSE ISqrtIn(x, lo, mid - 1)


\* Great-circle distance in metres.  With coordinates in metres of arc the
\* haversine formula gives |dlat| on a meridian and |dlon| on the equator;
\* for other pairs of nearby points it is the planar distance, rounded down.
haversine(lat1, lon1, lat2, lon2) ==
    IF lon1 = lon2 THEN Abs(lat2 - lat1)
    ELSE IF lat1 = lat2 THEN Abs(lon2 - lon1)
    ELSE ISqrtIn((lat2 - lat1) * (lat2 - lat1) + (lon2 - lon1) * (lon2 - lon1),
                 0, Abs(lat2 - lat1) + Abs(lon2 - lon1))

---------------------------------------------------------------------------
(* The rows the CSV files can hold. *)

\* latitudes: 0 is the "impossible" value; the others are 0, 1, 299, 300, 301,
\* 699, 700 and 1000 m apart
Lats == {0, 10, 11, 310, 311, 1010}

Lons == {0, 500}

\* raw times
Times == {0, 1, 2, 14}

\* an rssi cell: a float (or NaN) of a numeric column, or the text of a
\* column that pandas read as text
Float(x) == [str |-> FALSE, v |-> <<x>>]

NaNCell == [str |-> FALSE, v |-> <<>>]

Text(readings) == [str |-> TRUE, v |-> readings]

Rssis == {NaNCell, Float(-30), Float(-130), Float(-140), Text(<<-30>>), Text(<<-30, -51>>)}

Row(mac, ssid, time, rssi, lat, lon) ==
    [mac |-> mac, ssid |-> ssid, time |-> time, rssi |-> rssi,
     latitude |-> lat, longitude |-> lon]

\* rows that differ in position only
SpreadRows == {Row("aa:bb", "net", 1, Float(-30), lat, lon) : lat \in Lats, lon \in Lons}

\* rows that differ in identity (and lie 0 or 1000 m apart)
IdentityRows ==
    {Row(mac, ssid, 1, Float(-30), lat, 500) :
        mac \in {"AA:BB", "aa:bb"}, ssid \in {NaN, "net"}, lat \in {10, 1010}}

\* rows that differ in time (and lie 0 or 1000 m apart)
TimeRows == {Row("aa:bb", "net", t, Float(-30), lat, 500) : t \in Times, lat \in {10, 1010}}

\* rows that differ in signal strength (and lie 0 or 300 m apart)
RssiRows == {Row("aa:bb", "net", 1, r, lat, 500) : r \in Rssis, lat \in {10, 310}}

Slices == {SpreadRows, IdentityRows, TimeRows, RssiRows}

---------------------------------------------------------------------------
(* pandas and Python operations the scripts use. *)

RECURSIVE SumSeq(_)
SumSeq(s) == IF s = <<>> THEN 0 ELSE Head(s) + SumSeq(Tail(s))

\* the column c of a frame, as a sequence
Column(f, c) == [i \in 1..Len(f) |-> f[i][c]]

\* pd.to_datetime(..., errors="coerce")
to_datetime(t) == IF t >= 1 THEN t ELSE NaT

\* df["time_dt"] = pd.to_datetime(df["time"], errors="coerce")
WithTimeDt(f) ==
    [i \in 1..Len(f) |->
        [mac |-> f[i].mac, ssid |-> f[i].ssid, time |-> f[i].time,
         time_dt |-> to_datetime(f[i].time), rssi |-> f[i].rssi,
         latitude |-> f[i].latitude, longitude |-> f[i].longitude]]

\* a comparison of two timestamps: any comparison with NaT is False
TimeLt(a, b) == a # NaT /\ b # NaT /\ a < b

TimeLe(a, b) == a # NaT /\ b # NaT /\ a <= b

\* Series.min() and Series.max() of a datetime column: NaT is skipped, and
\* the result is NaT when nothing is left
SeriesMin(s) ==
    LET valid == {s[i] : i \in 1..Len(s)} \ {NaT}
    IN  IF valid = {} THEN NaT ELSE CHOOSE m \in valid : \A x \in valid : m <= x

SeriesMax(s) ==
    LET valid == {s[i] : i \in 1..Len(s)} \ {NaT}
    IN  IF valid = {} THEN NaT ELSE CHOOSE m \in valid : \A x \in valid : m >= x

\* Python's builtin min(list) and max(list): keep the first item and replace
\* it by a later one only when "item < kept" (min) or "item > kept" (max)
RECURSIVE PyMinFrom(_, _)
PyMinFrom(kept, rest) ==
    IF rest = <<>> THEN kept
    ELSE PyMinFrom(IF TimeLt(Head(rest), kept) THEN Head(rest) ELSE kept, Tail(rest))

PyMin(times) == PyMinFrom(Head(times), Tail(times))

RECURSIVE PyMaxFrom(_, _)
PyMaxFrom(kept, rest) ==
    IF rest = <<>> THEN kept
    ELSE PyMaxFrom(IF TimeLt(kept, Head(rest)) THEN Head(rest) ELSE kept, Tail(rest))

PyMax(times) == PyMaxFrom(Head(times), Tail(times))

\* the order of strings (by code point), as the rank in this list
StrOrder == <<"AA:BB", "NaN", "aa:bb", "net", "unk">>

StrRank(s) == CHOOSE i \in 1..Len(StrOrder) : StrOrder[i] = s

\* the order of key tuples of equal length
RECURSIVE KeyLess(_, _)
KeyLess(a, b) ==
    /\ a # <<>>
    /\ \/ StrRank(Head(a)) < StrRank(Head(b))
       \/ Head(a) = Head(b) /\ KeyLess(Tail(a), Tail(b))

RECURSIVE SortKeys(_)
SortKeys(S) ==
    IF S = {} THEN <<>>
    ELSE LET k == CHOOSE x \in S : \A y \in S \ {x} : KeyLess(x, y)
         IN  <<k>> \o SortKeys(S \ {k})

\* str.lower of a MAC
Lower(mac) == IF mac = "AA:BB" THEN "aa:bb" ELSE mac

\* the group key of a row: its values in the columns named by
KeyOf(r, by) == [i \in 1..Len(by) |-> r[by[i]]]

HasNaN(k) == \E i \in 1..Len(k) : k[i] = NaN

\* DataFrame.groupby(by) with its defaults (sort=True, dropna=True): rows
\* whose key holds a missing value are in no group; the groups come in key
\* order and each keeps its rows in frame order
groupby(f, by) ==
    LET keys == {KeyOf(f[i], by) : i \in 1..Len(f)}
        kept == SortKeys({k \in keys : ~HasNaN(k)})
    IN  [n \in 1..Len(kept) |->
            [key |-> kept[n], g |-> SelectSeq(f, LAMBDA r : KeyOf(r, by) = kept[n])]]

\* df["ssid_filled"] = df["ssid"].replace("", "unk")
WithSsidFilled(f) ==
    [i \in 1..Len(f) |->
        [mac |-> f[i].mac, ssid |-> f[i].ssid,
         ssid_filled |-> IF f[i].ssid = "" THEN "unk" ELSE f[i].ssid,
         time |-> f[i].time, time_dt |-> f[i].time_dt, rssi |-> f[i].rssi,
         latitude |-> f[i].latitude, longitude |-> f[i].longitude]]

\* coords = list(zip(records["latitude"], records["longitude"]))
Coords(records) == [i \in 1..Len(records) |-> <<records[i].latitude, records[i].longitude>>]

---------------------------------------------------------------------------
(* AccessPointClassifier (access_point_classifier.py). *)

\* the analysis windows a caller can ask for: none, or [start_dt, end_dt]
DateRanges == {<<>>, <<1, 2>>}

\* rows with a zero coordinate dropped, then the rows outside the window
clean_rows(f, range) ==
    LET timed   == WithTimeDt(f)
        nonzero == SelectSeq(timed, LAMBDA r : r.latitude # 0 /\ r.longitude # 0)
    IN  IF range = <<>> THEN nonzero
        ELSE SelectSeq(nonzero,
                 LAMBDA r : TimeLe(range[1], r.time_dt) /\ TimeLe(r.time_dt, range[2]))

\* rssi = group["rssi"].fillna(-130) of a numeric column
fillna_rssi(cell) == IF cell.v = <<>> THEN -130 ELSE cell.v[1]

\* a maximum that lets a negative second argument through
Max2_second(a, b) == b

Max2(a, b) == IF a >= b THEN a ELSE b

\* an estimate without the fallback to the mean
_compute_static_ap_coords_no_fallback(group) ==
    LET weights == [i \in 1..Len(group) |-> Max2(0, 130 + fillna_rssi(group[i].rssi))]
        total_weight == SumSeq(weights)
        wlat == SumSeq([i \in 1..Len(group) |-> group[i].latitude * weights[i]])
        wlon == SumSeq([i \in 1..Len(group) |-> group[i].longitude * weights[i]])
    IN  <<Num(wlat, total_weight), Num(wlon, total_weight)>>

_compute_static_ap_coords(group) ==
    LET weights == [i \in 1..Len(group) |-> Max2(0, 130 + fillna_rssi(group[i].rssi))]
        total_weight == SumSeq(weights)
        wlat == SumSeq([i \in 1..Len(group) |-> group[i].latitude * weights[i]])
        wlon == SumSeq([i \in 1..Len(group) |-> group[i].longitude * weights[i]])
    IN  IF total_weight # 0
        THEN <<Num(wlat, total_weight), Num(wlon, total_weight)>>
        ELSE <<Num(SumSeq(Column(group, "latitude")), Len(group)),
               Num(SumSeq(Column(group, "longitude")), Len(group))>>

\* the pair loop of classify: "if max_dist is None or dist > max_dist"
RECURSIVE APC_pair_loop(_, _, _, _)
APC_pair_loop(coords, i, j, max_dist) ==
    IF i > Len(coords) THEN max_dist
    ELSE IF j > Len(coords) THEN APC_pair_loop(coords, i + 1, i + 2, max_dist)
    ELSE LET dist == haversine(coords[i][1], coords[i][2], coords[j][1], coords[j][2])
         IN  APC_pair_loop(coords, i, j + 1,
                 IF max_dist = None \/ dist > max_dist THEN dist ELSE max_dist)

\* a spread that looks at the first and the last detection only
APC_max_dist_ends(coords) ==
    IF Len(coords) > 1
    THEN haversine(coords[1][1], coords[1][2],
                   coords[Len(coords)][1], coords[Len(coords)][2])
    ELSE None

APC_max_dist(coords) ==
    IF Len(coords) > 1 THEN APC_pair_loop(coords, 1, 2, None) ELSE None

\* Python's truth value of max_dist: None and 0.0 are both false
Truthy(x) == x # None /\ x # 0

\* "if max_dist:" and the two threshold tests
APC_label(max_dist) ==
    IF Truthy(max_dist)
    THEN IF max_dist >= COTRAVELER_DIST_THRESHOLD THEN "co-traveler"
         ELSE IF max_dist <= STATIC_AP_DIST_THRESHOLD THEN "static"
         ELSE "unknown"
    ELSE "unknown"

\* one iteration of the loop of classify: the row appended to classified
APC_classify_group(key, records) ==
    LET coords   == Coords(records)
        best     == _compute_static_ap_coords(records)
        max_dist == APC_max_dist(coords)
        cls      == APC_label(max_dist)
        cleared  == Truthy(max_dist) /\ max_dist >= COTRAVELER_DIST_THRESHOLD
    IN  [mac |-> key[1], ssid |-> key[2], classification |-> cls,
         first_seen |-> SeriesMin(Column(records, "time_dt")),
         last_seen |-> SeriesMax(Column(records, "time_dt")),
         lat |-> IF cleared THEN Empty ELSE best[1],
         lon |-> IF cleared THEN Empty ELSE best[2],
         max_dist |-> max_dist, coords |-> coords]

\* a grouping that folds the case of the MAC first
APC_groups_lower(f) ==
    LET filled == WithSsidFilled(f)
        folded == [i \in 1..Len(filled) |-> [filled[i] EXCEPT !.mac = Lower(@)]]
    IN  groupby(folded, <<"mac", "ssid_filled">>)

\* df.groupby(["mac", "ssid_filled"])
APC_groups(f) == groupby(WithSsidFilled(f), <<"mac", "ssid_filled">>)

APC_classified(f) ==
    LET groups == APC_groups(f)
    IN  [n \in 1..Len(groups) |-> APC_classify_group(groups[n].key, groups[n].g)]

\* "130 + rssi" raises TypeError when a cell of a grouped row is text
APC_raises(f) ==
    LET groups == APC_groups(f)
    IN  \E n \in 1..Len(groups) : \E i \in 1..Len(groups[n].g) : groups[n].g[i].rssi.str

---------------------------------------------------------------------------
(* co_traveler_analysis.py. *)

\* Step 4: the same preprocessing as clean_data
CTA_preprocess(f, range) ==
    LET timed   == WithTimeDt(f)
        nonzero == SelectSeq(timed, LAMBDA r : r.latitude # 0 /\ r.longitude # 0)
    IN  IF range = <<>> THEN nonzero
        ELSE SelectSeq(nonzero,
                 LAMBDA r : TimeLe(range[1], r.time_dt) /\ TimeLe(r.time_dt, range[2]))

\* Step 5, the pair loop: is_cotraveler is set by any pair at or over 1000 m
RECURSIVE CTA_pair_loop(_, _, _, _)
CTA_pair_loop(coords, i, j, st) ==
    IF i > Len(coords) THEN st
    ELSE IF j > Len(coords) THEN CTA_pair_loop(coords, i + 1, i + 2, st)
    ELSE LET d == haversine(coords[i][1], coords[i][2], coords[j][1], coords[j][2])
         IN  CTA_pair_loop(coords, i, j + 1,
                 [is_cotraveler |-> st.is_cotraveler \/ d >= 1000,
                  max_dist |-> IF d > st.max_dist THEN d ELSE st.max_dist])

\* Step 5 without its test "len(coords) < 2"
CTA_spread_no_single(coords) ==
    LET st == CTA_pair_loop(coords, 1, 2, [is_cotraveler |-> FALSE, max_dist |-> 0])
    IN  [classification |->
             IF st.is_cotraveler THEN "co-traveler"
             ELSE IF st.max_dist <= 300 THEN "static"
             ELSE "unknown",
         group_max |-> st.max_dist]

\* Step 5: the label and the group maximum of one group
CTA_spread(coords) ==
    IF Len(coords) < 2
    THEN [classification |-> "unknown", group_max |-> 0]
    ELSE LET st == CTA_pair_loop(coords, 1, 2, [is_cotraveler |-> FALSE, max_dist |-> 0])
         IN  [classification |->
                  IF st.is_cotraveler THEN "co-traveler"
                  ELSE IF st.max_dist <= 300 THEN "static"
                  ELSE "unknown",
              group_max |-> st.max_dist]

\* Step 5: the row appended to classified
CTA_classify_group(key, records) ==
    LET sp    == CTA_spread(Coords(records))
        times == Column(records, "time_dt")
    IN  [mac |-> key[1], ssid |-> key[2], classification |-> sp.classification,
         first_seen |-> PyMin(times), last_seen |-> PyMax(times),
         max_dist |-> sp.group_max]

\* df.groupby(["mac", "ssid_filled"])
CTA_groups(f) == groupby(WithSsidFilled(f), <<"mac", "ssid_filled">>)

CTA_classified(f) ==
    LET groups == CTA_groups(f)
    IN  [n \in 1..Len(groups) |-> CTA_classify_group(groups[n].key, groups[n].g)]

\* the groups of one label, with their records and group maximum
CTA_groups_labelled(f, label) ==
    LET groups == CTA_groups(f)
        all    == [n \in 1..Len(groups) |->
                      [key |-> groups[n].key, records |-> groups[n].g,
                       sp |-> CTA_spread(Coords(groups[n].g))]]
        picked == SelectSeq(all, LAMBDA e : e.sp.classification = label)
    IN  [n \in 1..Len(picked) |->
            [key |-> picked[n].key, records |-> picked[n].records,
             max_dist |-> picked[n].sp.group_max]]

\* average_rssi: <<sum, count>> of the readings of a text cell; <<>> (None)
\* for a cell that is no text (.split raises) or holds no reading
average_rssi(cell) ==
    IF cell.str /\ cell.v # <<>> THEN <<SumSeq(cell.v), Len(cell.v)>> ELSE <<>>

RECURSIVE ProdSeq(_)
ProdSeq(s) == IF s = <<>> THEN 1 ELSE Head(s) * ProdSeq(Tail(s))

\* Step 6: weight max(0, 130 + avg_rssi), or 0 without an average; the
\* weights are kept over the common denominator of the averages
CTA_weights(group) ==
    LET avg == [i \in 1..Len(group) |-> average_rssi(group[i].rssi)]
        den == ProdSeq([i \in 1..Len(group) |-> IF avg[i] = <<>> THEN 1 ELSE avg[i][2]])
    IN  [i \in 1..Len(group) |->
            IF avg[i] = <<>> THEN 0
            ELSE Max2(0, 130 * avg[i][2] + avg[i][1]) * (den \div avg[i][2])]

CTA_best_guess(group) ==
    LET weight == CTA_weights(group)
        total_weight == SumSeq(weight)
        wlat == SumSeq([i \in 1..Len(group) |-> group[i].latitude * weight[i]])
        wlon == SumSeq([i \in 1..Len(group) |-> group[i].longitude * weight[i]])
    IN  IF total_weight > 0
        THEN <<Num(wlat, total_weight), Num(wlon, total_weight)>>
        ELSE <<Num(SumSeq(Column(group, "latitude")), Len(group)),
               Num(SumSeq(Column(group, "longitude")), Len(group))>>

CTA_static_results(groups) ==
    [n \in 1..Len(groups) |->
        LET best == CTA_best_guess(groups[n].records)
        IN  [mac |-> groups[n].key[1], ssid |-> groups[n].key[2],
             best_lat |-> best[1], best_lon |-> best[2]]]

\* Step 7: best_lat and best_lon are "" unless the row is static and has a
\* match in static_df; the max_dist column is dropped
CTA_categorized(cls, sdf) ==
    [n \in 1..Len(cls) |->
        LET row   == cls[n]
            match == SelectSeq(sdf, LAMBDA m : m.mac = row.mac /\ m.ssid = row.ssid)
            fill  == row.classification = "static" /\ match # <<>>
        IN  [mac |-> row.mac, ssid |-> row.ssid, classification |-> row.classification,
             first_seen |-> row.first_seen, last_seen |-> row.last_seen,
             best_lat |-> IF fill THEN match[1].best_lat ELSE Empty,
             best_lon |-> IF fill THEN match[1].best_lon ELSE Empty]]

---------------------------------------------------------------------------
(* flagged_signals_analysis.py. *)

RECURSIVE FSA_pair_loop(_, _, _, _)
FSA_pair_loop(coords, i, j, max_dist) ==
    IF i > Len(coords) THEN max_dist
    ELSE IF j > Len(coords) THEN FSA_pair_loop(coords, i + 1, i + 2, max_dist)
    ELSE LET d == haversine(coords[i][1], coords[i][2], coords[j][1], coords[j][2])
         IN  FSA_pair_loop(coords, i, j + 1, IF d > max_dist THEN d ELSE max_dist)

compute_max_distance(group) ==
    LET coords == Coords(group)
    IN  IF Len(coords) < 2 THEN 0 ELSE FSA_pair_loop(coords, 1, 2, 0)

Min2(a, b) == IF a <= b THEN a ELSE b

\* a score whose distance factor has no upper limit
FSA_confidence_unclamped(count, max_distance, time_range) ==
    Num(29100 * Min2(count, 20)
          + 80 * Max2(max_distance - 300, 0)
          + 48500 * Min2(time_range, 12),
        19400)

\* (0.3 * count_factor + 0.4 * distance_factor + 0.3 * time_factor) * 100,
\* over the denominator 19400
FSA_confidence(count, max_distance, time_range) ==
    Num(29100 * Min2(count, 20)
          + 80 * Min2(Max2(max_distance - 300, 0), 9700)
          + 48500 * Min2(time_range, 12),
        19400)

\* a frame that keeps the rows whose time does not parse
FSA_rows_keep_all(f) == WithTimeDt(f)

\* the rows of main's frame: those whose time parses
FSA_rows(f) == SelectSeq(WithTimeDt(f), LAMBDA r : r.time_dt # NaT)

\* a number left as it is
round1_exact(x) == x

\* round(x, 1) of a number x = n/d that is not negative: the nearest multiple
\* of 1/10, the even one of two that are equally near
round1(x) ==
    LET q == (10 * x.n) \div x.d
        r == (10 * x.n) % x.d
    IN  Num(IF 2 * r > x.d \/ (2 * r = x.d /\ q % 2 = 1) THEN q + 1 ELSE q, 10)

\* the record main appends for a group.  max_distance and time_range are
\* whole numbers here, which round(.., 1) and round(.., 2) leave as they are
FSA_record(mac, count, max_distance, first_seen, last_seen) ==
    LET time_range == last_seen - first_seen
    IN  [mac |-> mac, detections |-> count,
         max_distance_m |-> max_distance, time_range_hours |-> time_range,
         first_seen |-> first_seen, last_seen |-> last_seen,
         confidence |-> round1(FSA_confidence(count, max_distance, time_range))]

\* a loop without "if max_distance < 300: continue"
FSA_results_ungated(f) ==
    LET groups == groupby(FSA_rows(f), <<"mac">>)
    IN  [n \in 1..Len(groups) |->
            LET group == groups[n].g
            IN  FSA_record(groups[n].key[1], Len(group), compute_max_distance(group),
                           SeriesMin(Column(group, "time_dt")),
                           SeriesMax(Column(group, "time_dt")))]

\* a loop that passes over the groups spread over exactly 300 m too
FSA_results_over(f) ==
    LET groups  == groupby(FSA_rows(f), <<"mac">>)
        flagged == SelectSeq(groups, LAMBDA e : ~(compute_max_distance(e.g) <= FLAG_THRESHOLD))
    IN  [n \in 1..Len(flagged) |->
            LET group == flagged[n].g
            IN  FSA_record(flagged[n].key[1], Len(group), compute_max_distance(group),
                           SeriesMin(Column(group, "time_dt")),
                           SeriesMax(Column(group, "time_dt")))]

\* main's loop over the groups: a record for each group at or over 300 m
FSA_results(f) ==
    LET groups  == groupby(FSA_rows(f), <<"mac">>)
        flagged == SelectSeq(groups, LAMBDA e : ~(compute_max_distance(e.g) < FLAG_THRESHOLD))
    IN  [n \in 1..Len(flagged) |->
            LET group == flagged[n].g
            IN  FSA_record(flagged[n].key[1], Len(group), compute_max_distance(group),
                           SeriesMin(Column(group, "time_dt")),
                           SeriesMax(Column(group, "time_dt")))]

\* results_df.sort_values(by="confidence", ascending=False): the orders of
\* the records in which no confidence is followed by a higher one; the sort
\* is not stable, so records of equal confidence come in any order
sort_values(records) ==
    {s \in {[i \in 1..Len(records) |-> records[p[i]]] : p \in Permutations(1..Len(records))} :
        \A i \in 1..(Len(s) - 1) : s[i].confidence.n >= s[i + 1].confidence.n}

---------------------------------------------------------------------------
(* static_aggregate.py. *)

RECURSIVE SA_pair_loop(_, _, _, _)
SA_pair_loop(coords, i, j, max_dist) ==
    IF i > Len(coords) THEN max_dist
    ELSE IF j > Len(coords) THEN SA_pair_loop(coords, i + 1, i + 2, max_dist)
    ELSE LET d == haversine(coords[i][1], coords[i][2], coords[j][1], coords[j][2])
         IN  SA_pair_loop(coords, i, j + 1, IF d > max_dist THEN d ELSE max_dist)

SA_max_dist(group) ==
    LET coords == Coords(group)
    IN  IF Len(coords) > 1 THEN SA_pair_loop(coords, 1, 2, 0) ELSE 0

\* pd.to_numeric(errors="coerce") of an rssi cell, then the weight:
\* max(0, 130 + x) for a number, 1 for a missing value
SA_weight(cell) ==
    IF Len(cell.v) = 1 THEN Max2(0, 130 + cell.v[1]) ELSE 1

SA_best(group) ==
    LET weight == [i \in 1..Len(group) |-> SA_weight(group[i].rssi)]
        total_weight == SumSeq(weight)
        wlat == SumSeq([i \in 1..Len(group) |-> group[i].latitude * weight[i]])
        wlon == SumSeq([i \in 1..Len(group) |-> group[i].longitude * weight[i]])
    IN  IF total_weight > 0
        THEN <<Num(wlat, total_weight), Num(wlon, total_weight)>>
        ELSE <<Num(SumSeq(Column(group, "latitude")), Len(group)),
               Num(SumSeq(Column(group, "longitude")), Len(group))>>

\* Step 4: a record, always labelled STATIC, for each group within 200 m
SA_aggregated(f) ==
    LET groups == groupby(f, <<"mac", "ssid">>)
        kept   == SelectSeq(groups, LAMBDA e : SA_max_dist(e.g) <= SA_STATIC_THRESHOLD)
    IN  [n \in 1..Len(kept) |->
            LET group == WithTimeDt(kept[n].g)
                best  == SA_best(group)
            IN  [MAC |-> kept[n].key[1], SSID |-> kept[n].key[2],
                 BEST_LAT |-> best[1], BEST_LON |-> best[2],
                 FIRST_SEEN |-> SeriesMin(Column(group, "time_dt")),
                 LAST_SEEN |-> SeriesMax(Column(group, "time_dt")),
                 CLASSIFICATION |-> "STATIC"]]

---------------------------------------------------------------------------
(* The state machine. *)

\* no call of cluster_records is under way
cluster_idle ==
    /\ cr_records = <<>>
    /\ threshold = 50
    /\ indices = <<>>
    /\ cluster = <<>>
    /\ clusters = <<>>
    /\ center_lat = Num(0, 1)
    /\ center_lon = Num(0, 1)
    /\ changed = FALSE
    /\ passes = 0
    /\ unassigned = 0

\* no map has been built
map_idle ==
    /\ coordinates_df = <<>>
    /\ aggregated_markers = <<>>
    /\ todo = <<>>

\* cluster_records has not been called before
call_first ==
    /\ call = "first"
    /\ previous = <<>>
    /\ order = <<>>

Init ==
    /\ cluster_idle
    /\ map_idle
    /\ call_first
    /\ df = <<>>
    /\ pc = "load"
    /\ frame = <<>>
    /\ classified = <<>>
    /\ static_groups = <<>>
    /\ cotraveler_groups = <<>>
    /\ static_df = <<>>
    /\ categorized = <<>>
    /\ results = <<>>
    /\ aggregated_records = <<>>

\* reading the CSV files: one more row is read
load_files ==
    /\ pc = "load"
    /\ Len(df) < MaxRecords
    /\ \E S \in Slices : \E row \in S :
          /\ \A i \in 1..Len(df) : df[i] \in S
          /\ df' = Append(df, row)
    /\ UNCHANGED <<pc, frame, classified, static_groups, cotraveler_groups,
                   static_df, categorized, results, aggregated_records>>
    /\ UNCHANGED cluster_vars
    /\ UNCHANGED <<map_vars, call_vars>>

\* AccessPointClassifier: load_files (which exits on an empty frame),
\* standardize_columns, clean_data, apply_whitelist with no whitelist file
APC_clean_data ==
    /\ pc = "load"
    /\ Len(df) >= 1
    /\ \E range \in DateRanges :
          /\ frame' = clean_rows(df, range)
          /\ pc' = IF range # <<>> /\ frame' = <<>> THEN "exit" ELSE "apc_classify"
    /\ UNCHANGED <<df, classified, static_groups, cotraveler_groups,
                   static_df, categorized, results, aggregated_records>>
    /\ UNCHANGED cluster_vars
    /\ UNCHANGED <<map_vars, call_vars>>

\* AccessPointClassifier.classify
APC_classify ==
    /\ pc = "apc_classify"
    /\ IF APC_raises(frame)
       THEN pc' = "raised" /\ UNCHANGED classified
       ELSE pc' = "apc_classified" /\ classified' = APC_classified(frame)
    /\ UNCHANGED <<df, frame, static_groups, cotraveler_groups,
                   static_df, categorized, results, aggregated_records>>
    /\ UNCHANGED cluster_vars
    /\ UNCHANGED <<map_vars, call_vars>>

\* a comparison of a cell of the lat or lon column with a number: the cell
\* is a float unless classify has put "" there
FracLt(x, k) == x.n < 0 /\ ((-x.n) + x.d - 1) \div x.d > -k

FracGt(x, k) == x.n > 0 /\ (x.n + x.d - 1) \div x.d > k

\* Map.load_coordinates up to the call of _validate_coordinates
load_coordinates(classified_df) ==
    [n \in 1..Len(classified_df) |-> classified_df[n] @@ [marker_type |-> "default"]]

\* Map._validate_coordinates: the rows it keeps
_validate_coordinates(rows) ==
    SelectSeq(rows, LAMBDA r : ~((FracLt(r.lat, -LAT_LIMIT) \/ FracGt(r.lat, LAT_LIMIT))
                                 \/ (FracLt(r.lon, -LON_LIMIT) \/ FracGt(r.lon, LON_LIMIT))))

\* a column that holds "" is a column of objects, and comparing one of its
\* cells "" with a number raises TypeError
compare_raises(rows) ==
    \E n \in 1..Len(rows) : rows[n].lat = Empty \/ rows[n].lon = Empty

\* AccessPointClassifier.build_map: Map.load_coordinates(self.classified_df),
\* which raises ValueError when the frame has no lat and lon columns (no row
\* was classified) and TypeError in _validate_coordinates
APC_build_map ==
    /\ pc = "apc_classified"
    /\ IF classified = <<>>
       THEN pc' = "map_raised" /\ UNCHANGED coordinates_df
       ELSE IF compare_raises(load_coordinates(classified))
       THEN pc' = "map_raised" /\ coordinates_df' = load_coordinates(classified)
       ELSE /\ pc' = "apc_mapped"
            /\ coordinates_df' = _validate_coordinates(load_coordinates(classified))
    /\ UNCHANGED <<df, frame, classified, static_groups, cotraveler_groups,
                   static_df, categorized, results, aggregated_records,
                   aggregated_markers, todo>>
    /\ UNCHANGED <<cluster_vars, call_vars>>

\* co_traveler_analysis.py, Steps 1 to 4a (no whitelist file)
CTA_Step4 ==
    /\ pc = "load"
    /\ Len(df) >= 1
    /\ \E range \in DateRanges :
          /\ frame' = CTA_preprocess(df, range)
          /\ pc' = IF range # <<>> /\ frame' = <<>> THEN "exit" ELSE "cta_step5"
    /\ UNCHANGED <<df, classified, static_groups, cotraveler_groups,
                   static_df, categorized, results, aggregated_records>>
    /\ UNCHANGED cluster_vars
    /\ UNCHANGED <<map_vars, call_vars>>

\* Step 5: group by unique signals and classify
CTA_Step5 ==
    /\ pc = "cta_step5"
    /\ classified' = CTA_classified(frame)
    /\ cotraveler_groups' = CTA_groups_labelled(frame, "co-traveler")
    /\ static_groups' = CTA_groups_labelled(frame, "static")
    /\ pc' = "cta_step6"
    /\ UNCHANGED <<df, frame, static_df, categorized, results, aggregated_records>>
    /\ UNCHANGED cluster_vars
    /\ UNCHANGED <<map_vars, call_vars>>

\* Step 6: best-guess coordinates of the static groups
CTA_Step6 ==
    /\ pc = "cta_step6"
    /\ static_df' = CTA_static_results(static_groups)
    /\ pc' = "cta_step7"
    /\ UNCHANGED <<df, frame, classified, static_groups, cotraveler_groups,
                   categorized, results, aggregated_records>>
    /\ UNCHANGED cluster_vars
    /\ UNCHANGED <<map_vars, call_vars>>

\* Step 7: the categorized-signals table
CTA_Step7 ==
    /\ pc = "cta_step7"
    /\ categorized' = CTA_categorized(classified, static_df)
    /\ pc' = "cta_categorized"
    /\ UNCHANGED <<df, frame, classified, static_groups, cotraveler_groups,
                   static_df, results, aggregated_records>>
    /\ UNCHANGED cluster_vars
    /\ UNCHANGED <<map_vars, call_vars>>

\* flagged_signals_analysis.py, main
FSA_main ==
    /\ pc = "load"
    /\ Len(df) >= 1
    /\ results' \in sort_values(FSA_results(df))
    /\ pc' = "fsa_done"
    /\ UNCHANGED <<df, frame, classified, static_groups, cotraveler_groups,
                   static_df, categorized, aggregated_records>>
    /\ UNCHANGED cluster_vars
    /\ UNCHANGED <<map_vars, call_vars>>

\* static_aggregate.py, Steps 2 to 4
SA_Step4 ==
    /\ pc = "load"
    /\ Len(df) >= 1
    /\ aggregated_records' = SA_aggregated(df)
    /\ pc' = "sa_done"
    /\ UNCHANGED <<df, frame, classified, static_groups, cotraveler_groups,
                   static_df, categorized, results>>
    /\ UNCHANGED cluster_vars
    /\ UNCHANGED <<map_vars, call_vars>>

Next ==
    \/ load_files
    \/ APC_clean_data
    \/ APC_classify
    \/ APC_build_map
    \/ CTA_Step4
    \/ CTA_Step5
    \/ CTA_Step6
    \/ CTA_Step7
    \/ FSA_main
    \/ SA_Step4

Spec == Init /\ [][Next]_vars

---------------------------------------------------------------------------
(* The confidence score of main, on groups larger than the frames above:    *)
(* the body of main's loop applied to a group of count detections spread    *)
(* over max_distance metres and time_range hours.                           *)

\* spreads below, at and above the 300 m gate and the 10000 m saturation
ScoreSpreads == {0, 299, 300, 301, 1000, 5150, 9999, 10000, 10001, 12000}

ScoreInit ==
    /\ cluster_idle
    /\ map_idle
    /\ call_first
    /\ df = <<>>
    /\ pc = "score"
    /\ frame = <<>>
    /\ classified = <<>>
    /\ static_groups = <<>>
    /\ cotraveler_groups = <<>>
    /\ static_df = <<>>
    /\ categorized = <<>>
    /\ results = <<>>
    /\ aggregated_records = <<>>

\* one iteration of main's loop: "if max_distance < 300: continue", else
\* the score and results.append
FSA_score ==
    /\ pc = "score"
    /\ \E count \in 1..MaxCount, max_distance \in ScoreSpreads, time_range \in 0..MaxHours :
          results' = IF max_distance < FLAG_THRESHOLD THEN <<>>
                     ELSE <<FSA_record("aa:bb", count, max_distance, 1, 1 + time_range)>>
    /\ pc' = "scored"
    /\ UNCHANGED <<df, frame, classified, static_groups, cotraveler_groups,
                   static_df, categorized, aggregated_records>>
    /\ UNCHANGED cluster_vars
    /\ UNCHANGED <<map_vars, call_vars>>

ScoreNext == FSA_score

ScoreSpec == ScoreInit /\ [][ScoreNext]_vars

---------------------------------------------------------------------------
(* cluster_records of co_traveler_analysis.py, step by step.  The rows are  *)
(* <<latitude, longitude, time_dt>>; their index labels are their positions.*)
(* The centre of a cluster is a mean, kept as two exact fractions.          *)

\* points on one meridian, and two points 50 m from each other that are
\* both a little over 50 m from <<0, 500>>, their midpoint being 45 m from it
ClusterPoints ==
    {<<lat, 500, 1>> : lat \in {0, 50, 70, 90, 100}} \cup {<<45, 475, 1>>, <<45, 525, 1>>}

ClusterThresholds == {0, 50}

\* the rows a call can be given
ClusterInputs ==
    UNION {[1..n -> ClusterPoints] : n \in 0..MaxCluster}

\* "d = haversine(center_lat, center_lon, lat, lon)" and "d <= threshold":
\* the distance from the centre to the point, not rounded, is at most the
\* threshold (both sides multiplied by the denominator k of the centre)
haversine_within(clat, clon, lat, lon, thr) ==
    LET k    == clat.d * (IF clon.d = clat.d THEN 1 ELSE clon.d)
        dlat == clat.n * (k \div clat.d) - lat * k
        dlon == clon.n * (k \div clon.d) - lon * k
    IN  /\ Abs(dlat) <= thr * k
        /\ Abs(dlon) <= thr * k
        /\ dlat * dlat + dlon * dlon <= (thr * k) * (thr * k)

\* a worklist that keeps its first label
pop_none(worklist) == worklist

\* the worklist after "indices.pop(0)"
pop_rest(worklist) == Tail(worklist)

\* a scan that never looks at the last detection of the worklist
scan_skip_last(worklist, clat, clon, thr) ==
    SelectSeq(SubSeq(worklist, 1, Len(worklist) - 1),
              LAMBDA idx : haversine_within(clat, clon, cr_records[idx][1],
                                            cr_records[idx][2], thr))

\* a scan that takes every detection of the worklist, near or far
scan_all(worklist, clat, clon, thr) == worklist

\* the labels one pass appends to remove_list
scan(worklist, clat, clon, thr) ==
    SelectSeq(worklist,
        LAMBDA idx : haversine_within(clat, clon, cr_records[idx][1], cr_records[idx][2], thr))

\* a cluster that takes the first label of remove_list only
joined_first(members, remove_list) ==
    members \o (IF remove_list = <<>> THEN <<>> ELSE <<Head(remove_list)>>)

\* the cluster after "cluster.append(idx)" for each label of remove_list
joined(members, remove_list) == members \o remove_list

\* the worklist after "indices.remove(idx)" for each label of remove_list
remaining(worklist, remove_list) ==
    SelectSeq(worklist, LAMBDA idx : \A i \in 1..Len(remove_list) : remove_list[i] # idx)

\* a centre that stays at the first member of the cluster
loc_first(members, column) == Num(cr_records[members[1]][column], 1)

\* records.loc[cluster, column].mean()
loc_mean(members, column) ==
    Num(SumSeq([i \in 1..Len(members) |-> cr_records[members[i]][column]]), Len(members))

\* the call cluster_records(records, threshold): clusters = [] and
\* indices = records.index.tolist()
ClusterInit ==
    /\ map_idle
    /\ call_first
    /\ df = <<>>
    /\ frame = <<>>
    /\ classified = <<>>
    /\ static_groups = <<>>
    /\ cotraveler_groups = <<>>
    /\ static_df = <<>>
    /\ categorized = <<>>
    /\ results = <<>>
    /\ aggregated_records = <<>>
    /\ pc = "cluster_outer"
    /\ cr_records \in ClusterInputs
    /\ threshold \in ClusterThresholds
    /\ indices = [i \in 1..Len(cr_records) |-> i]
    /\ cluster = <<>>
    /\ clusters = <<>>
    /\ center_lat = Num(0, 1)
    /\ center_lon = Num(0, 1)
    /\ changed = FALSE
    /\ passes = 0
    /\ unassigned = 0

\* "while indices:" entered: the seed is popped and starts a cluster
cluster_seed ==
    /\ pc = "cluster_outer"
    /\ indices # <<>>
    /\ indices' = pop_rest(indices)
    /\ cluster' = <<Head(indices)>>
    /\ changed' = TRUE
    /\ center_lat' = Num(cr_records[Head(indices)][1], 1)
    /\ center_lon' = Num(cr_records[Head(indices)][2], 1)
    /\ passes' = 0
    /\ unassigned' = Len(indices')
    /\ pc' = "cluster_inner"
    /\ UNCHANGED <<df, frame, classified, static_groups, cotraveler_groups,
                   static_df, categorized, results, aggregated_records,
                   cr_records, threshold, clusters>>
    /\ UNCHANGED <<map_vars, call_vars>>

\* "while changed:" entered: one pass over the worklist, then the new centre
cluster_pass ==
    /\ pc = "cluster_inner"
    /\ changed
    /\ LET remove_list == scan(indices, center_lat, center_lon, threshold)
       IN  /\ cluster' = joined(cluster, remove_list)
           /\ changed' = (remove_list # <<>>)
           /\ indices' = remaining(indices, remove_list)
    /\ center_lat' = IF cluster' # <<>> THEN loc_mean(cluster', 1) ELSE center_lat
    /\ center_lon' = IF cluster' # <<>> THEN loc_mean(cluster', 2) ELSE center_lon
    /\ passes' = passes + 1
    /\ UNCHANGED <<df, pc, frame, classified, static_groups, cotraveler_groups,
                   static_df, categorized, results, aggregated_records,
                   cr_records, threshold, clusters, unassigned>>
    /\ UNCHANGED <<map_vars, call_vars>>

\* "while changed:" left: clusters.append(cluster)
cluster_append ==
    /\ pc = "cluster_inner"
    /\ ~changed
    /\ clusters' = Append(clusters, cluster)
    /\ pc' = "cluster_outer"
    /\ UNCHANGED <<df, frame, classified, static_groups, cotraveler_groups,
                   static_df, categorized, results, aggregated_records,
                   cr_records, threshold, indices, cluster, center_lat, center_lon,
                   changed, passes, unassigned>>
    /\ UNCHANGED <<map_vars, call_vars>>

\* "while indices:" left: return clusters
cluster_return ==
    /\ pc = "cluster_outer"
    /\ indices = <<>>
    /\ pc' = "cluster_done"
    /\ UNCHANGED <<df, frame, classified, static_groups, cotraveler_groups,
                   static_df, categorized, results, aggregated_records, cluster_vars>>
    /\ UNCHANGED <<map_vars, call_vars>>

ClusterNext ==
    \/ cluster_seed
    \/ cluster_pass
    \/ cluster_append
    \/ cluster_return

ClusterSpec == ClusterInit /\ [][ClusterNext]_vars

\* the same call, every step of which is taken in the end
ClusterLive == ClusterInit /\ [][ClusterNext]_vars /\ WF_vars(ClusterNext)

---------------------------------------------------------------------------
(* What the claims speak of. *)

\* classify has run to its end
APC_done == pc = "apc_classified"

\* Step 5 has run
CTA_done == pc \in {"cta_step6", "cta_step7", "cta_categorized"}

FSA_done == pc = "fsa_done"

SA_done == pc = "sa_done"

\* the groups main and Step 4 of static_aggregate.py iterate over
FSA_groups == groupby(FSA_rows(df), <<"mac">>)

SA_groups == groupby(df, <<"mac", "ssid">>)

\* the distance of the two rows of a two-row group
PairDistance(g) == haversine(g[1].latitude, g[1].longitude, g[2].latitude, g[2].longitude)

\* the label the thresholds give to a spread of d metres
ThresholdLabel(d) ==
    IF d >= 1000 THEN "co-traveler" ELSE IF d <= 300 THEN "static" ELSE "unknown"

\* the distances of all distinct unordered pairs of a list of coordinates
PairDistances(coords) ==
    {haversine(coords[i][1], coords[i][2], coords[j][1], coords[j][2]) :
        <<i, j>> \in {q \in (1..Len(coords)) \X (1..Len(coords)) : q[1] < q[2]}}

SetMax(S) == CHOOSE m \in S : \A x \in S : m >= x

SetMin(S) == CHOOSE m \in S : \A x \in S : m <= x

\* all rows of a group lie at the same coordinates
SameCoords(coords) == \A i, j \in 1..Len(coords) : coords[i] = coords[j]

\* a list in another order
Reordered(s, p) == [i \in 1..Len(s) |-> s[p[i]]]

Orders(s) == Permutations(1..Len(s))

\* C1: a group of two detections is labelled by the distance d of the pair
\* alone: co-traveler when d >= 1000, else static when d <= 300, else
\* unknown, in classify and in the Step 5 loop.
C1_TwoPointLabelByDistance ==
    /\ APC_done =>
          \A n \in 1..Len(classified) :
              LET g == APC_groups(frame)[n].g
              IN  Len(g) = 2 => classified[n].classification = ThresholdLabel(PairDistance(g))
    /\ CTA_done =>
          \A n \in 1..Len(classified) :
              LET g == CTA_groups(frame)[n].g
              IN  Len(g) = 2 => classified[n].classification = ThresholdLabel(PairDistance(g))

\* C2: a group of two or more detections that all lie at the same
\* coordinates is labelled static, in classify and in the Step 5 loop.
C2_SameCoordsStatic ==
    /\ APC_done =>
          \A n \in 1..Len(classified) :
              Len(classified[n].coords) >= 2 /\ SameCoords(classified[n].coords)
                  => classified[n].classification = "static"
    /\ CTA_done =>
          \A n \in 1..Len(classified) :
              LET coords == Coords(CTA_groups(frame)[n].g)
              IN  Len(coords) >= 2 /\ SameCoords(coords)
                      => classified[n].classification = "static"

\* C3: the flag-based loop of Step 5 and the single-maximum test of classify
\* give every group the same label.
C3_FlagAndMaximumAgree ==
    /\ APC_done =>
          \A n \in 1..Len(classified) :
              classified[n].classification
                  = CTA_spread(classified[n].coords).classification
    /\ CTA_done =>
          \A n \in 1..Len(classified) :
              LET coords == Coords(CTA_groups(frame)[n].g)
              IN  classified[n].classification = APC_label(APC_max_dist(coords))

\* the records static_aggregate.py emits for a group key
SA_emitted(key) ==
    {n \in 1..Len(aggregated_records) :
        aggregated_records[n].MAC = key[1] /\ aggregated_records[n].SSID = key[2]}

\* C4 as claimed: a group of fewer than two detections is labelled unknown by
\* classify and by Step 5, and static_aggregate.py emits no such group as
\* STATIC.
C4_SingleNeverStatic ==
    /\ APC_done =>
          \A n \in 1..Len(classified) :
              Len(classified[n].coords) < 2 => classified[n].classification = "unknown"
    /\ CTA_done =>
          \A n \in 1..Len(classified) :
              Len(CTA_groups(frame)[n].g) < 2 => classified[n].classification = "unknown"
    /\ SA_done =>
          \A n \in 1..Len(SA_groups) :
              Len(SA_groups[n].g) < 2 =>
                  \A m \in SA_emitted(SA_groups[n].key) :
                      aggregated_records[m].CLASSIFICATION # "STATIC"

\* C4 as amended: a group of fewer than two detections is labelled unknown by
\* classify and by Step 5, while static_aggregate.py emits every such group,
\* labelled STATIC.
C4_SinglePolicy ==
    /\ APC_done =>
          \A n \in 1..Len(classified) :
              Len(classified[n].coords) < 2 => classified[n].classification = "unknown"
    /\ CTA_done =>
          \A n \in 1..Len(classified) :
              Len(CTA_groups(frame)[n].g) < 2 => classified[n].classification = "unknown"
    /\ SA_done =>
          \A n \in 1..Len(SA_groups) :
              Len(SA_groups[n].g) < 2 =>
                  /\ SA_emitted(SA_groups[n].key) # {}
                  /\ \A m \in SA_emitted(SA_groups[n].key) :
                         aggregated_records[m].CLASSIFICATION = "STATIC"

\* C4, reached: static_aggregate.py has emitted a group of one detection
C4_Witness ==
    /\ SA_done
    /\ \E n \in 1..Len(SA_groups) :
          Len(SA_groups[n].g) = 1 /\ SA_emitted(SA_groups[n].key) # {}

\* C5: a result carries a best-guess location only when its label is static:
\* lat/lon of classify and best_lat/best_lon of the categorized table are
\* empty for every co-traveler and every unknown group.
C5_LocationOnlyForStatic ==
    /\ APC_done =>
          \A n \in 1..Len(classified) :
              classified[n].classification # "static"
                  => classified[n].lat = Empty /\ classified[n].lon = Empty
    /\ pc = "cta_categorized" =>
          \A n \in 1..Len(categorized) :
              categorized[n].classification # "static"
                  => categorized[n].best_lat = Empty /\ categorized[n].best_lon = Empty

\* C6: for a group of two or more detections the max spread of each script
\* is the largest distance over all distinct unordered pairs of the group,
\* and it is the same for every order of the group's detections.
C6_MaxSpreadIsPairMaximum ==
    /\ APC_done =>
          \A n \in 1..Len(classified) :
              LET coords == classified[n].coords
              IN  Len(coords) >= 2 =>
                      /\ classified[n].max_dist = SetMax(PairDistances(coords))
                      /\ \A p \in Orders(coords) :
                             APC_max_dist(Reordered(coords, p)) = classified[n].max_dist
    /\ CTA_done =>
          \A n \in 1..Len(classified) :
              LET coords == Coords(CTA_groups(frame)[n].g)
              IN  Len(coords) >= 2 =>
                      /\ classified[n].max_dist = SetMax(PairDistances(coords))
                      /\ \A p \in Orders(coords) :
                             CTA_spread(Reordered(coords, p)).group_max
                                 = classified[n].max_dist
    /\ FSA_done =>
          /\ \A n \in 1..Len(FSA_groups) :
                 LET g == FSA_groups[n].g
                 IN  Len(g) >= 2 =>
                         /\ compute_max_distance(g) = SetMax(PairDistances(Coords(g)))
                         /\ \A p \in Orders(g) :
                                compute_max_distance(Reordered(g, p))
                                    = compute_max_distance(g)
          /\ \A m \in 1..Len(results) : \E n \in 1..Len(FSA_groups) :
                 /\ FSA_groups[n].key = <<results[m].mac>>
                 /\ results[m].max_distance_m
                        = SetMax(PairDistances(Coords(FSA_groups[n].g)))
    /\ SA_done =>
          \A n \in 1..Len(SA_groups) :
              LET g == SA_groups[n].g
              IN  Len(g) >= 2 =>
                      /\ SA_max_dist(g) = SetMax(PairDistances(Coords(g)))
                      /\ \A p \in Orders(g) :
                             SA_max_dist(Reordered(g, p)) = SA_max_dist(g)
                      /\ SA_emitted(SA_groups[n].key) # {}
                             <=> SetMax(PairDistances(Coords(g))) <= SA_STATIC_THRESHOLD

\* C6, reached: classify has met a group of three detections whose largest
\* distance is not the distance of its first and last detection
C6_Witness ==
    /\ APC_done
    /\ \E n \in 1..Len(classified) :
          LET coords == classified[n].coords
          IN  /\ Len(coords) = 3
              /\ classified[n].max_dist
                     > haversine(coords[1][1], coords[1][2], coords[3][1], coords[3][2])

\* C7: for every group of fewer than two detections the reported max spread
\* is the number 0, never a missing value.
C7_SingleSpreadIsZero ==
    /\ APC_done =>
          \A n \in 1..Len(classified) :
              Len(classified[n].coords) < 2 => classified[n].max_dist = 0
    /\ CTA_done =>
          \A n \in 1..Len(classified) :
              Len(CTA_groups(frame)[n].g) < 2 => classified[n].max_dist = 0
    /\ FSA_done =>
          \A n \in 1..Len(FSA_groups) :
              Len(FSA_groups[n].g) < 2 => compute_max_distance(FSA_groups[n].g) = 0

\* the number of rows of a frame that are equal to r
Count(f, r) == Cardinality({i \in 1..Len(f) : f[i] = r})

\* the groups of a grouping partition the rows of the frame f: every row is
\* in exactly one group, no group is empty, and two rows share a group
\* exactly when their keys are equal
Partitions(groups, f, by) ==
    /\ \A i \in 1..Len(f) :
          /\ Cardinality({n \in 1..Len(groups) : Count(groups[n].g, f[i]) > 0}) = 1
          /\ SumSeq([n \in 1..Len(groups) |-> Count(groups[n].g, f[i])]) = Count(f, f[i])
    /\ \A n \in 1..Len(groups) : groups[n].g # <<>>
    /\ \A i, j \in 1..Len(f) :
          KeyOf(f[i], by) = KeyOf(f[j], by) <=>
              \E n \in 1..Len(groups) :
                  Count(groups[n].g, f[i]) > 0 /\ Count(groups[n].g, f[j]) > 0

\* C8: the grouping of classify and of Step 5 partitions the rows that reach
\* it, and the results cover all of them.
C8_GroupingPartitions ==
    /\ APC_done =>
          /\ Partitions(APC_groups(frame), WithSsidFilled(frame), <<"mac", "ssid_filled">>)
          /\ SumSeq([n \in 1..Len(classified) |-> Len(classified[n].coords)]) = Len(frame)
    /\ CTA_done =>
          /\ Partitions(CTA_groups(frame), WithSsidFilled(frame), <<"mac", "ssid_filled">>)
          /\ Len(classified) = Len(CTA_groups(frame))

\* C9 as claimed: detections with one SSID whose MACs differ only in letter
\* case are in one group, so no two results differ in the case of the MAC
\* alone.
C9_MacCaseFolded ==
    APC_done \/ CTA_done =>
        \A m, n \in 1..Len(classified) :
            Lower(classified[m].mac) = Lower(classified[n].mac)
                /\ classified[m].ssid = classified[n].ssid
            => m = n

\* the rows of the working frame with exactly this MAC and SSID
RowsOf(mac, ssid) == SelectSeq(frame, LAMBDA r : r.mac = mac /\ r.ssid = ssid)

\* C9 as amended: the grouper compares MACs as written: every detection
\* with an SSID is in the group of its own MAC, spelled as in the detection,
\* and a group holds the detections of that spelling only.
C9_MacCaseKept ==
    /\ APC_done \/ CTA_done =>
          \A i \in 1..Len(frame) :
              frame[i].ssid # NaN =>
                  Cardinality({n \in 1..Len(classified) :
                      classified[n].mac = frame[i].mac
                          /\ classified[n].ssid = frame[i].ssid}) = 1
    /\ APC_done =>
          \A n \in 1..Len(classified) :
              classified[n].coords = Coords(RowsOf(classified[n].mac, classified[n].ssid))
    /\ CTA_done =>
          \A n \in 1..Len(static_groups) :
              static_groups[n].records
                  = WithSsidFilled(RowsOf(static_groups[n].key[1], static_groups[n].key[2]))

\* C9, reached: two detections of one SSID whose MACs differ in case only
\* have been classified, as two groups
C9_Witness ==
    /\ APC_done
    /\ \E i, j \in 1..Len(frame) :
          /\ frame[i].mac = "AA:BB" /\ frame[j].mac = "aa:bb"
          /\ frame[i].ssid = "net" /\ frame[j].ssid = "net"
    /\ \E m, n \in 1..Len(classified) :
          classified[m].mac = "AA:BB" /\ classified[n].mac = "aa:bb"

\* the parseable timestamps of a group
ValidTimes(g) == {g[i].time_dt : i \in 1..Len(g)} \ {NaT}

\* C10: first seen and last seen of a group are the minimum and the maximum
\* of its parseable timestamps whenever it has one, wherever the unparseable
\* ones stand in the group.
C10_SeenSkipsInvalidTimes ==
    /\ APC_done =>
          \A n \in 1..Len(classified) :
              LET valid == ValidTimes(APC_groups(frame)[n].g)
              IN  valid # {} =>
                      /\ classified[n].first_seen = SetMin(valid)
                      /\ classified[n].last_seen = SetMax(valid)
    /\ CTA_done =>
          \A n \in 1..Len(classified) :
              LET valid == ValidTimes(CTA_groups(frame)[n].g)
              IN  valid # {} =>
                      /\ classified[n].first_seen = SetMin(valid)
                      /\ classified[n].last_seen = SetMax(valid)
    /\ SA_done =>
          \A n \in 1..Len(SA_groups) :
              LET valid == ValidTimes(WithTimeDt(SA_groups[n].g))
              IN  valid # {} =>
                      \A m \in SA_emitted(SA_groups[n].key) :
                          /\ aggregated_records[m].FIRST_SEEN = SetMin(valid)
                          /\ aggregated_records[m].LAST_SEEN = SetMax(valid)

---------------------------------------------------------------------------
(* Detections whose time does not parse. *)

\* the row r of a working frame and another row s have the same identity
SameIdentity(r, s) == r.mac = s.mac /\ r.ssid = s.ssid

\* the distance of two rows
RowDistance(r, s) == haversine(r.latitude, r.longitude, s.latitude, s.longitude)

\* in classify and in Step 5, a detection with an unparseable time that
\* reaches the grouping step counts in the spread and the label of its group
InvalidTimeCountsInClassify ==
    APC_done \/ CTA_done =>
        \A i \in 1..Len(frame) :
            frame[i].time_dt = NaT /\ frame[i].ssid # NaN =>
                \E n \in 1..Len(classified) :
                    /\ classified[n].mac = frame[i].mac
                    /\ classified[n].ssid = frame[i].ssid
                    /\ \A j \in (1..Len(frame)) \ {i} :
                           SameIdentity(frame[i], frame[j]) =>
                               /\ classified[n].max_dist >= RowDistance(frame[i], frame[j])
                               /\ RowDistance(frame[i], frame[j]) >= 1000
                                      => classified[n].classification = "co-traveler"

\* in static_aggregate.py, such a detection counts in the 200 m test
InvalidTimeCountsInAggregate ==
    SA_done =>
        \A i \in 1..Len(df) :
            to_datetime(df[i].time) = NaT /\ df[i].ssid # NaN =>
                \A j \in (1..Len(df)) \ {i} :
                    SameIdentity(df[i], df[j]) /\ RowDistance(df[i], df[j]) > SA_STATIC_THRESHOLD
                        => SA_emitted(<<df[i].mac, df[i].ssid>>) = {}

\* the rows read for a MAC, and those of them whose time parses
RowsOfMac(mac) == SelectSeq(df, LAMBDA r : r.mac = mac)

ParseableRowsOfMac(mac) == SelectSeq(df, LAMBDA r : r.mac = mac /\ to_datetime(r.time) # NaT)

\* the largest pair distance of a list of rows, 0 for fewer than two rows
Spread(rows) == IF Len(rows) < 2 THEN 0 ELSE SetMax(PairDistances(Coords(rows)))

\* the flagged-signal records of a MAC
FSA_emitted(mac) == {m \in 1..Len(results) : results[m].mac = mac}

\* C11 as claimed: a detection whose time does not parse is left out of
\* first/last seen only: it counts in the spread and the label of its group
\* in classify, Step 5 and static_aggregate.py, and in the 300 m flagging
\* decision, which is taken over all detections of the MAC.
C11_InvalidTimeStillCounts ==
    /\ InvalidTimeCountsInClassify
    /\ InvalidTimeCountsInAggregate
    /\ FSA_done =>
          \A i \in 1..Len(df) :
              Spread(RowsOfMac(df[i].mac)) >= FLAG_THRESHOLD
                  => FSA_emitted(df[i].mac) # {}

\* C11 as amended: a detection whose time does not parse counts in the
\* spread and the label of its group in classify, Step 5 and
\* static_aggregate.py, while flagged_signals_analysis.py drops it before
\* grouping: the 300 m flagging decision, the detection count and the spread
\* of a record are taken over the detections of the MAC whose time parses.
C11_InvalidTimePolicy ==
    /\ InvalidTimeCountsInClassify
    /\ InvalidTimeCountsInAggregate
    /\ FSA_done =>
          \A i \in 1..Len(df) :
              LET rows == ParseableRowsOfMac(df[i].mac)
              IN  /\ FSA_emitted(df[i].mac) # {} <=> Spread(rows) >= FLAG_THRESHOLD
                  /\ \A m \in FSA_emitted(df[i].mac) :
                         /\ results[m].detections = Len(rows)
                         /\ results[m].max_distance_m = Spread(rows)

\* C11, reached: a MAC seen 1000 m apart, once with a time that does not
\* parse, has no flagged-signal record
C11_Witness ==
    /\ FSA_done
    /\ \E i, j \in 1..Len(df) :
          /\ df[i].mac = df[j].mac
          /\ to_datetime(df[i].time) = NaT /\ to_datetime(df[j].time) # NaT
          /\ RowDistance(df[i], df[j]) >= 1000
          /\ FSA_emitted(df[i].mac) = {}

---------------------------------------------------------------------------
(* The cleaning step. *)

\* clean_data or Step 4 has run
Cleaned == pc \in {"apc_classify", "apc_classified", "raised", "exit",
                   "cta_step5", "cta_step6", "cta_step7", "cta_categorized"}

\* the row of the working frame made from a row read
Timed(r) == WithTimeDt(<<r>>)[1]

\* a time that lies in every analysis window a caller can ask for
InEveryWindow(t) ==
    \A range \in DateRanges :
        range # <<>> => TimeLe(range[1], to_datetime(t)) /\ TimeLe(to_datetime(t), range[2])

\* C12: the cleaning step of classify and of Step 4 drops the detections
\* whose latitude and longitude are both 0, and only those: a detection with
\* exactly one zero coordinate (and a time in the window) is kept.
C12_OnlyBothZeroDropped ==
    Cleaned =>
        \A i \in 1..Len(df) :
            IF df[i].latitude = 0 /\ df[i].longitude = 0
            THEN Count(frame, Timed(df[i])) = 0
            ELSE InEveryWindow(df[i].time)
                     => Count(frame, Timed(df[i])) = Count(df, df[i])

---------------------------------------------------------------------------
(* The location estimate. *)

\* two fractions are the same number
FracEq(a, b) == a.kind = "num" /\ b.kind = "num" /\ a.n * b.d = b.n * a.d

\* every detection of the group has one RSSI reading
SingleReadings(group) == \A i \in 1..Len(group) : Len(group[i].rssi.v) = 1

\* the weight max(0, 130 + rssi) of a detection with one reading
RssiWeight(r) == Max2(0, 130 + r.rssi.v[1])

TotalRssiWeight(group) == SumSeq([i \in 1..Len(group) |-> RssiWeight(group[i])])

\* sum(weight * coord) / sum(weight) on the axis c
WeightedMean(group, c) ==
    Num(SumSeq([i \in 1..Len(group) |-> group[i][c] * RssiWeight(group[i])]),
        TotalRssiWeight(group))

\* the group is weighted as claimed: its estimate <<lat, lon>> is the mean
\* weighted by max(0, 130 + rssi) when the weights do not sum to 0
WeightedAsClaimed(group, lat, lon) ==
    SingleReadings(group) /\ TotalRssiWeight(group) > 0 =>
        /\ FracEq(lat, WeightedMean(group, "latitude"))
        /\ FracEq(lon, WeightedMean(group, "longitude"))

WeightedInClassify ==
    APC_done =>
        \A n \in 1..Len(classified) :
            classified[n].classification = "static" =>
                WeightedAsClaimed(APC_groups(frame)[n].g, classified[n].lat, classified[n].lon)

WeightedInStep6 ==
    pc \in {"cta_step7", "cta_categorized"} =>
        \A n \in 1..Len(static_df) :
            WeightedAsClaimed(static_groups[n].records,
                              static_df[n].best_lat, static_df[n].best_lon)

WeightedInAggregate ==
    SA_done =>
        \A n \in 1..Len(SA_groups) :
            \A m \in SA_emitted(SA_groups[n].key) :
                WeightedAsClaimed(SA_groups[n].g, aggregated_records[m].BEST_LAT,
                                  aggregated_records[m].BEST_LON)

\* C13: the location estimate of a group whose detections all have an RSSI
\* is sum(weight * coord) / sum(weight) on each axis with the weight
\* max(0, 130 + rssi), in classify, in Step 6 and in static_aggregate.py; so
\* two detections with RSSI -30 and -130 give the place of the first.
C13_WeightedCentroid ==
    /\ WeightedInClassify
    /\ WeightedInStep6
    /\ WeightedInAggregate

\* the detection has no RSSI, or an RSSI (the average of its readings) of
\* -130 or less
NoWeight(r) == r.rssi.v = <<>> \/ SumSeq(r.rssi.v) <= (-130) * Len(r.rssi.v)

\* the unweighted arithmetic mean of the group on the axis c
Mean(group, c) == Num(SumSeq(Column(group, c)), Len(group))

\* the estimate <<lat, lon>> is the unweighted mean of the group, and no
\* division by zero made it
IsMean(group, lat, lon) ==
    /\ lat.kind = "num" /\ lat.d # 0 /\ FracEq(lat, Mean(group, "latitude"))
    /\ lon.kind = "num" /\ lon.d # 0 /\ FracEq(lon, Mean(group, "longitude"))

\* C14: when the weights of a group sum to 0 (every detection lacks an RSSI
\* or has one of -130 or less), the location estimate of classify and of
\* Step 6 is the unweighted mean of the group's coordinates, and nothing is
\* divided by zero; so is the estimate of static_aggregate.py when every
\* RSSI is -130 or less.
C14_ZeroWeightFallsBackToMean ==
    /\ APC_done =>
          \A n \in 1..Len(classified) :
              LET g == APC_groups(frame)[n].g
              IN  /\ classified[n].lat # Empty => classified[n].lat.d # 0
                  /\ (classified[n].lat # Empty /\ \A i \in 1..Len(g) : NoWeight(g[i]))
                         => IsMean(g, classified[n].lat, classified[n].lon)
    /\ pc \in {"cta_step7", "cta_categorized"} =>
          \A n \in 1..Len(static_df) :
              LET g == static_groups[n].records
              IN  /\ static_df[n].best_lat.d # 0
                  /\ (\A i \in 1..Len(g) : NoWeight(g[i]))
                         => IsMean(g, static_df[n].best_lat, static_df[n].best_lon)
    /\ SA_done =>
          \A n \in 1..Len(SA_groups) :
              \A m \in SA_emitted(SA_groups[n].key) :
                  LET g == SA_groups[n].g
                  IN  /\ aggregated_records[m].BEST_LAT.d # 0
                      /\ (SingleReadings(g) /\ \A i \in 1..Len(g) : NoWeight(g[i]))
                             => IsMean(g, aggregated_records[m].BEST_LAT,
                                       aggregated_records[m].BEST_LON)

\* C14, reached: classify has located a group of two detections 300 m
\* apart, one without RSSI and one at -140, halfway between them
C14_Witness ==
    /\ APC_done
    /\ \E n \in 1..Len(classified) :
          LET g == APC_groups(frame)[n].g
          IN  /\ Len(g) = 2
              /\ g[1].rssi = NaNCell /\ g[2].rssi = Float(-140)
              /\ g[1].latitude # g[2].latitude
              /\ classified[n].classification = "static"
              /\ 2 * classified[n].lat.n
                     = (g[1].latitude + g[2].latitude) * classified[n].lat.d

\* the weights max(0, 130 + rssi) of the records of a group, the rssi being
\* the average of the readings of the cell, numeric or text, and the weight 0
\* for a record without RSSI; all over the common denominator of the averages
AverageWeights(group) ==
    LET den == ProdSeq([i \in 1..Len(group) |->
                   IF group[i].rssi.v = <<>> THEN 1 ELSE Len(group[i].rssi.v)])
    IN  [i \in 1..Len(group) |->
            LET v == group[i].rssi.v
            IN  IF v = <<>> THEN 0
                ELSE Max2(0, 130 * Len(v) + SumSeq(v)) * (den \div Len(v))]

\* C15: in co_traveler_analysis.py every static group gets the average of
\* its coordinates weighted by max(0, 130 + rssi) of each record that has an
\* RSSI, be the cell a number or a text of readings; only records without
\* RSSI weigh 0.
C15_EveryRssiWeighs ==
    pc \in {"cta_step7", "cta_categorized"} =>
        /\ Len(static_df) = Len(static_groups)
        /\ \A n \in 1..Len(static_df) :
              LET g == static_groups[n].records
                  w == AverageWeights(g)
              IN  SumSeq(w) > 0 =>
                      /\ FracEq(static_df[n].best_lat,
                                Num(SumSeq([i \in 1..Len(g) |-> g[i].latitude * w[i]]),
                                    SumSeq(w)))
                      /\ FracEq(static_df[n].best_lon,
                                Num(SumSeq([i \in 1..Len(g) |-> g[i].longitude * w[i]]),
                                    SumSeq(w)))

---------------------------------------------------------------------------
(* The confidence score. *)

\* 100 * (0.3 * min(n/20, 1) + 0.4 * clamp((spread - 300)/9700, 0, 1)
\*        + 0.3 * min(t/12, 1)), the three terms over the denominator
\* 10 * 20 * 9700 * 12
ClaimedConfidence(n, spread, t) ==
    Num(3 * Min2(n, 20) * 9700 * 12
          + 4 * Min2(Max2(spread - 300, 0), 9700) * 20 * 12
          + 3 * Min2(t, 12) * 20 * 9700,
        232800)

\* the claimed confidence of a flagged-signal record
ClaimedOf(r) == ClaimedConfidence(r.detections, r.max_distance_m, r.time_range_hours)

\* C16 as claimed: the confidence of every flagged-signal record is the value
\* of the formula and lies in [0, 100].
C16_ConfidenceIsFormula ==
    \A m \in 1..Len(results) :
        /\ FracEq(results[m].confidence, ClaimedOf(results[m]))
        /\ 0 <= results[m].confidence.n
        /\ results[m].confidence.n <= 100 * results[m].confidence.d

\* C16 as amended: the confidence of every flagged-signal record is the value
\* of the formula rounded to one decimal place (a whole number of tenths at
\* most 0.05 from the value), and lies in [0, 100].
C16_ConfidenceIsRoundedFormula ==
    \A m \in 1..Len(results) :
        /\ results[m].confidence.kind = "num"
        /\ results[m].confidence.d = 10
        /\ Abs(results[m].confidence.n * 23280 - ClaimedOf(results[m]).n) <= 11640
        /\ 0 <= results[m].confidence.n
        /\ results[m].confidence.n <= 1000

\* C16, reached: a group of 21 detections has been scored, and its recorded
\* confidence is not the value of the formula
C16_Witness ==
    /\ pc = "scored"
    /\ \E m \in 1..Len(results) :
          /\ results[m].detections = 21
          /\ ~FracEq(results[m].confidence, ClaimedOf(results[m]))

\* the confidence main records for the counts and times of the record r and
\* the spread d
ConfidenceAt(r, d) ==
    FSA_record(r.mac, r.detections, d, r.first_seen, r.last_seen).confidence

FracLe(a, b) == a.n * b.d <= b.n * a.d

\* C17: with the detection count and the time range held fixed, the
\* confidence does not decrease when the max spread grows, and it is the
\* same for every max spread of 10000 m or more.
C17_MonotoneInSpread ==
    \A m \in 1..Len(results) :
        \A d1, d2 \in {d \in ScoreSpreads : d >= FLAG_THRESHOLD} :
            /\ ConfidenceAt(results[m], results[m].max_distance_m) = results[m].confidence
            /\ d1 <= d2 =>
                   FracLe(ConfidenceAt(results[m], d1), ConfidenceAt(results[m], d2))
            /\ d1 >= 10000 /\ d2 >= 10000 =>
                   FracEq(ConfidenceAt(results[m], d1), ConfidenceAt(results[m], d2))

\* C17, reached: a group spread over 12000 m has been scored, higher than
\* the same group would be at 300 m
C17_Witness ==
    /\ pc = "scored"
    /\ \E m \in 1..Len(results) :
          /\ results[m].max_distance_m = 12000
          /\ ~FracLe(results[m].confidence, ConfidenceAt(results[m], 300))

\* C18: the flagged-signals analysis emits one record for a MAC group when
\* the largest pair distance of the group is 300 m or more (300 m itself
\* included) and none when it is less, and every record is of such a group.
C18_FlaggedIffAtLeast300 ==
    FSA_done =>
        /\ \A n \in 1..Len(FSA_groups) :
              Cardinality(FSA_emitted(FSA_groups[n].key[1]))
                  = IF Spread(FSA_groups[n].g) >= 300 THEN 1 ELSE 0
        /\ \A m \in 1..Len(results) :
              \E n \in 1..Len(FSA_groups) :
                  /\ FSA_groups[n].key[1] = results[m].mac
                  /\ Spread(FSA_groups[n].g) >= 300

\* C18, reached: a MAC group spread over exactly 300 m has a record
C18_Witness ==
    /\ FSA_done
    /\ \E n \in 1..Len(FSA_groups) :
          /\ Spread(FSA_groups[n].g) = 300
          /\ FSA_emitted(FSA_groups[n].key[1]) # {}

---------------------------------------------------------------------------
(* cluster_records. *)

\* how often the label idx stands in the clusters returned
TimesClustered(idx) ==
    SumSeq([c \in 1..Len(clusters) |->
               Cardinality({i \in 1..Len(clusters[c]) : clusters[c][i] = idx})])

\* C19: cluster_records returns a partition of its input: every index label
\* of the rows given is in exactly one cluster, once; no other label is in a
\* cluster; and no cluster is empty.
C19_ClustersPartitionInput ==
    pc = "cluster_done" =>
        /\ \A idx \in 1..Len(cr_records) : TimesClustered(idx) = 1
        /\ \A c \in 1..Len(clusters) :
              /\ clusters[c] # <<>>
              /\ \A i \in 1..Len(clusters[c]) : clusters[c][i] \in 1..Len(cr_records)

\* C19, reached: three rows have been returned as a cluster of two and a
\* cluster of one
C19_Witness ==
    /\ pc = "cluster_done"
    /\ Len(cr_records) = 3
    /\ Len(clusters) = 2
    /\ \E c \in 1..2 : Len(clusters[c]) = 2

\* C20: cluster_records ends on every input: it returns in the end; every
\* outer iteration shortens the worklist, by the seed at least; and a pass
\* that adds no member is the last of its cluster, so that a cluster takes at
\* most one pass more than there were labels left when its seed was taken.
C20_ClusteringTerminates ==
    /\ <>(pc = "cluster_done")
    /\ [](passes <= unassigned + 1)
    /\ [][pc = "cluster_outer" /\ pc' = "cluster_inner" => Len(indices') < Len(indices)]_vars
    /\ [][pc = "cluster_inner" /\ passes' = passes + 1 /\ cluster' = cluster
              => ~changed' /\ indices' = indices]_vars

\* C20, reached: a cluster has taken three passes, one more than the two
\* labels left when its seed was taken, and the call has returned
C20_Witness ==
    /\ pc = "cluster_done"
    /\ unassigned = 2
    /\ passes = 3

---------------------------------------------------------------------------
(* C25: what a closed cluster leaves on the worklist. *)

\* the mean position of the members of the k-th closed cluster
ClosedCentroid(k) == <<loc_mean(clusters[k], 1), loc_mean(clusters[k], 2)>>

\* the detection labelled idx lies within the threshold of the k-th closed cluster
NearClosed(k, idx) ==
    haversine_within(ClosedCentroid(k)[1], ClosedCentroid(k)[2],
                     cr_records[idx][1], cr_records[idx][2], threshold)

\* C25: once cluster_records has closed a cluster, every detection still on the
\* worklist is farther than the threshold from that cluster's final centroid,
\* and so is the seed of every cluster closed or started after it.
C25_ClosedClusterLeavesOnlyFar ==
    \A k \in 1..Len(clusters) :
        /\ \A i \in 1..Len(indices) : ~NearClosed(k, indices[i])
        /\ \A j \in (k + 1)..Len(clusters) : ~NearClosed(k, clusters[j][1])
        /\ pc = "cluster_inner" => ~NearClosed(k, cluster[1])

\* a first cluster of two detections was closed, a second one was seeded by a
\* detection left on the worklist and closed too
C25_Witness ==
    /\ pc = "cluster_done"
    /\ threshold = 50
    /\ Len(clusters) = 2
    /\ Len(clusters[1]) = 2
    /\ Len(cr_records) = 4

---------------------------------------------------------------------------
(* C26: members and the centroid they end with. *)

\* sequence s starts with sequence t
StartsWith(s, t) == Len(t) <= Len(s) /\ SubSeq(s, 1, Len(t)) = t

\* the labels of sequence s
Labels(s) == {s[i] : i \in 1..Len(s)}

\* C26 as stated: every member of every returned cluster, the seed included,
\* is within the threshold of the centroid the cluster ends with.
C26_MembersNearFinalCentroid ==
    \A k \in 1..Len(clusters) :
        \A i \in 1..Len(clusters[k]) : NearClosed(k, clusters[k][i])

\* C26 as the code has it: a detection joins a cluster only when it is within
\* the threshold of the centre the pass scans with, which is the mean of the
\* members joined before that pass; once joined it is never removed, and the
\* cluster is returned as it stood when its last pass ended.
C26_MembersNearCentreWhenJoined ==
    [][/\ (pc = "cluster_inner" /\ pc' = "cluster_inner") =>
              /\ StartsWith(cluster', cluster)
              /\ \A idx \in Labels(cluster') \ Labels(cluster) :
                     haversine_within(center_lat, center_lon,
                                      cr_records[idx][1], cr_records[idx][2], threshold)
       /\ (pc = "cluster_inner" /\ pc' = "cluster_outer") =>
              clusters' = Append(clusters, cluster)
       /\ StartsWith(clusters', clusters)]_vars

\* four detections joined one cluster in three passes and its seed ended
\* farther than the threshold from the final centroid
C26_Witness ==
    /\ pc = "cluster_done"
    /\ Len(clusters) = 1
    /\ Len(clusters[1]) = 4
    /\ ~NearClosed(1, clusters[1][1])

---------------------------------------------------------------------------
(* Step 8 of co_traveler_analysis.py: each co-traveler group is sorted by   *)
(* time, clustered by cluster_records with threshold 50 and turned into one *)
(* marker for each cluster.  cluster_records reads the latitude and the     *)
(* longitude of a record only; a record is <<latitude, longitude, time_dt>>.*)

\* the place of a time in an ascending sort: missing times come last
TimeKey(t) == IF t = NaT THEN MaxHours + 100 ELSE t

\* records.copy().sort_values(by="time_dt"): the rows in ascending time,
\* rows of equal time in any order
sort_values_time_dt(records) ==
    {[i \in 1..Len(records) |-> records[p[i]]] : p \in
        {q \in Permutations(1..Len(records)) :
            \A i \in 1..(Len(records) - 1) :
                TimeKey(records[q[i]].time_dt) <= TimeKey(records[q[i + 1]].time_dt)}}

\* aggregate_cluster(records, cluster_indices)
aggregate_cluster(records, cluster_indices) ==
    LET clust_data == [i \in 1..Len(cluster_indices) |-> records[cluster_indices[i]]]
    IN  [center |-> <<Num(SumSeq(Column(clust_data, 1)), Len(clust_data)),
                      Num(SumSeq(Column(clust_data, 2)), Len(clust_data))>>,
         first_seen |-> SeriesMin(Column(clust_data, 3)),
         last_seen |-> SeriesMax(Column(clust_data, 3))]

\* the marker Step 8 appends for one cluster of a group
CTA_marker(key, group_info, records, clust) ==
    LET agg == aggregate_cluster(records, clust)
        times == [i \in 1..Len(clust) |-> records[clust[i]][3]]
    IN  [mac |-> key[1], ssid |-> key[2],
         latitude |-> agg.center[1], longitude |-> agg.center[2],
         first_seen |-> SeriesMin(times), last_seen |-> SeriesMax(times),
         max_dist |-> group_info.max_dist]

\* "aggregated_markers = []" and the loop over cotraveler_groups.items()
CTA_Step8 ==
    /\ pc = "cta_categorized"
    /\ aggregated_markers' = <<>>
    /\ todo' = cotraveler_groups
    /\ pc' = "cta_step8"
    /\ UNCHANGED <<df, frame, classified, static_groups, cotraveler_groups,
                   static_df, categorized, results, aggregated_records,
                   coordinates_df>>
    /\ UNCHANGED <<cluster_vars, call_vars>>

\* the next group: its records sorted by time, and the call
\* cluster_records(records, threshold=50)
CTA_Step8_cluster ==
    /\ pc = "cta_step8"
    /\ todo # <<>>
    /\ \E records \in sort_values_time_dt(Head(todo).records) :
          cr_records' = [i \in 1..Len(records) |->
                            <<records[i].latitude, records[i].longitude, records[i].time_dt>>]
    /\ threshold' = 50
    /\ indices' = [i \in 1..Len(cr_records') |-> i]
    /\ cluster' = <<>>
    /\ clusters' = <<>>
    /\ center_lat' = Num(0, 1)
    /\ center_lon' = Num(0, 1)
    /\ changed' = FALSE
    /\ passes' = 0
    /\ unassigned' = 0
    /\ pc' = "cluster_outer"
    /\ UNCHANGED <<df, frame, classified, static_groups, cotraveler_groups,
                   static_df, categorized, results, aggregated_records>>
    /\ UNCHANGED <<map_vars, call_vars>>

\* cluster_records has returned: one marker is appended for each cluster
CTA_Step8_markers ==
    /\ pc = "cluster_done"
    /\ todo # <<>>
    /\ aggregated_markers' = aggregated_markers \o
           [k \in 1..Len(clusters) |->
               CTA_marker(Head(todo).key, Head(todo), cr_records, clusters[k])]
    /\ todo' = Tail(todo)
    /\ pc' = "cta_step8"
    /\ UNCHANGED <<df, frame, classified, static_groups, cotraveler_groups,
                   static_df, categorized, results, aggregated_records,
                   coordinates_df>>
    /\ UNCHANGED <<cluster_vars, call_vars>>

\* the detections of one identity, as metres east of the first one
Listed == <<0, 11, 55, 2224>>

\* where the first detection lies: at latitude 0 and longitude 0, or off both
ListedBases == {<<0, 0>>, <<10, 500>>}

\* the first n listed detections of one identity, each with a time of its own
MarkerInputs ==
    UNION {UNION {{[i \in 1..n |->
                      Row("aa:bb", "net", time[i], Float(-30), base[1], base[2] + Listed[i])] :
                   time \in [1..n -> {0, 1, 2}]} :
                  n \in 1..Len(Listed)} :
           base \in ListedBases}

\* co_traveler_analysis.py run on the listed detections
MarkerInit ==
    /\ cluster_idle
    /\ map_idle
    /\ call_first
    /\ df \in MarkerInputs
    /\ pc = "load"
    /\ frame = <<>>
    /\ classified = <<>>
    /\ static_groups = <<>>
    /\ cotraveler_groups = <<>>
    /\ static_df = <<>>
    /\ categorized = <<>>
    /\ results = <<>>
    /\ aggregated_records = <<>>

MarkerNext ==
    \/ CTA_Step4
    \/ CTA_Step5
    \/ CTA_Step6
    \/ CTA_Step7
    \/ CTA_Step8
    \/ CTA_Step8_cluster
    \/ cluster_seed
    \/ cluster_pass
    \/ cluster_append
    \/ cluster_return
    \/ CTA_Step8_markers

MarkerSpec == MarkerInit /\ [][MarkerNext]_vars

---------------------------------------------------------------------------
(* C24: the centre of a cluster and the marker made of it. *)

\* the sum of a column over the members of a cluster
MemberSum(members, column) ==
    SumSeq([i \in 1..Len(members) |-> cr_records[members[i]][column]])

\* fraction x is the mean of a column over the members
IsMemberMean(x, members, column) ==
    x.d # 0 /\ x.n * Len(members) = x.d * MemberSum(members, column)

\* the valid timestamps of the members
MemberTimes(members) == {cr_records[members[i]][3] : i \in 1..Len(members)} \ {NaT}

\* the marker Step 8 appended for the k-th cluster of the group clustered last
MarkerOf(k) == aggregated_markers[Len(aggregated_markers) - Len(clusters) + k]

\* C24: the centre every scan pass of cluster_records measures from is the
\* mean position of the members joined so far (the seed alone before the
\* first pass), and the marker made of a returned cluster carries the mean
\* position of exactly that cluster's members and the earliest and latest of
\* their timestamps (a missing time when no member has a valid one).
C24_CentreIsMeanOfMembers ==
    /\ pc = "cluster_inner" =>
           /\ IsMemberMean(center_lat, cluster, 1)
           /\ IsMemberMean(center_lon, cluster, 2)
           /\ passes = 0 => /\ center_lat = Num(cr_records[cluster[1]][1], 1)
                            /\ center_lon = Num(cr_records[cluster[1]][2], 1)
    /\ (pc = "cta_step8" /\ clusters # <<>>) =>
           /\ Len(aggregated_markers) >= Len(clusters)
           /\ \A k \in 1..Len(clusters) :
                  /\ IsMemberMean(MarkerOf(k).latitude, clusters[k], 1)
                  /\ IsMemberMean(MarkerOf(k).longitude, clusters[k], 2)
                  /\ IF MemberTimes(clusters[k]) = {}
                     THEN MarkerOf(k).first_seen = NaT /\ MarkerOf(k).last_seen = NaT
                     ELSE /\ MarkerOf(k).first_seen \in MemberTimes(clusters[k])
                          /\ MarkerOf(k).last_seen \in MemberTimes(clusters[k])
                          /\ \A t \in MemberTimes(clusters[k]) :
                                 MarkerOf(k).first_seen <= t /\ t <= MarkerOf(k).last_seen

\* a group of four detections was clustered into a trio seen at two different
\* times and a single detection, and both markers were appended
C24_Witness ==
    /\ pc = "cta_step8"
    /\ todo = <<>>
    /\ Len(clusters) = 2
    /\ Len(aggregated_markers) = 2
    /\ Len(clusters[1]) = 3
    /\ aggregated_markers[1].first_seen = 1
    /\ aggregated_markers[1].last_seen = 2
    /\ aggregated_markers[1].longitude # Num(cr_records[clusters[1][1]][2], 1)

---------------------------------------------------------------------------
(* C23: the four listed detections, end to end. *)

\* the frame read holds the four listed detections, the first one at base,
\* with times that parse and that every date range of the model contains
ListedAll(base) ==
    /\ Len(df) = Len(Listed)
    /\ \A i \in 1..Len(df) :
          /\ df[i].latitude = base[1]
          /\ df[i].longitude = base[2] + Listed[i]
          /\ df[i].time \in {1, 2}

\* the clusters of the group clustered last, each as the set of the
\* longitudes of its members
ClustersByLongitude ==
    {{cr_records[clusters[k][i]][2] : i \in 1..Len(clusters[k])} : k \in 1..Len(clusters)}

\* the outcome the listed detections are to have when the first one is at base
ListedOutcome(base) ==
    /\ pc # "exit"
    /\ pc \in {"cta_step6", "cta_step7", "cta_categorized", "cta_step8",
               "cluster_outer", "cluster_inner", "cluster_done"} =>
           /\ Len(classified) = 1
           /\ classified[1].classification = "co-traveler"
    /\ (pc = "cta_step8" /\ todo = <<>>) =>
           /\ Len(aggregated_markers) = 2
           /\ ClustersByLongitude =
                  {{base[2] + Listed[1], base[2] + Listed[2], base[2] + Listed[3]},
                   {base[2] + Listed[4]}}

ListedOffZeroYieldTrioAndSingle == ListedAll(<<10, 500>>) => ListedOutcome(<<10, 500>>)

---------------------------------------------------------------------------
(* cluster_records called a second time on what its first call returned:    *)
(* on the centroids of the clusters, and on the same records in another     *)
(* order.                                                                   *)

RECURSIVE Factorial(_)
Factorial(n) == IF n <= 1 THEN 1 ELSE n * Factorial(n - 1)

\* the mean of up to MaxCluster whole numbers is a whole number of
\* 1/ClusterScale: the second call takes the centroids and the threshold in
\* that unit, which leaves every comparison of a distance with the
\* threshold as it is
ClusterScale == Factorial(MaxCluster)

\* a fraction with a denominator of up to MaxCluster, in units of 1/ClusterScale
Scaled(x) == x.n * (ClusterScale \div x.d)

\* the locals of cluster_records at the start of a call on records
cluster_called(records) ==
    /\ cr_records' = records
    /\ indices' = [i \in 1..Len(records) |-> i]
    /\ cluster' = <<>>
    /\ clusters' = <<>>
    /\ center_lat' = Num(0, 1)
    /\ center_lon' = Num(0, 1)
    /\ changed' = FALSE
    /\ passes' = 0
    /\ unassigned' = 0
    /\ pc' = "cluster_outer"

\* cluster_records(centroids, threshold), the centroids being those
\* aggregate_cluster gives for the clusters of the first call
cluster_centroids ==
    /\ pc = "cluster_done"
    /\ call = "first"
    /\ todo = <<>>
    /\ cluster_called([k \in 1..Len(clusters) |->
           LET center == aggregate_cluster(cr_records, clusters[k]).center
           IN  <<Scaled(center[1]), Scaled(center[2]), 1>>])
    /\ threshold' = threshold * ClusterScale
    /\ call' = "centroids"
    /\ previous' = [records |-> cr_records, clusters |-> clusters]
    /\ order' = <<>>
    /\ UNCHANGED <<df, frame, classified, static_groups, cotraveler_groups,
                   static_df, categorized, results, aggregated_records, map_vars>>

\* cluster_records(records, threshold) on the records of the first call in
\* another order: the i-th record of this call is the order[i]-th of the first
cluster_reordered ==
    /\ pc = "cluster_done"
    /\ call = "first"
    /\ todo = <<>>
    /\ \E p \in Permutations(1..Len(cr_records)) :
          /\ cluster_called([i \in 1..Len(cr_records) |-> cr_records[p[i]]])
          /\ order' = [i \in 1..Len(cr_records) |-> p[i]]
    /\ call' = "reordered"
    /\ previous' = [records |-> cr_records, clusters |-> clusters]
    /\ UNCHANGED <<df, frame, classified, static_groups, cotraveler_groups,
                   static_df, categorized, results, aggregated_records, map_vars,
                   threshold>>

ReclusterNext ==
    \/ cluster_seed
    \/ cluster_pass
    \/ cluster_append
    \/ cluster_return
    \/ cluster_centroids

\* a call of cluster_records followed by a call on its centroids
ReclusterSpec == ClusterInit /\ [][ReclusterNext]_vars

ReorderNext ==
    \/ cluster_seed
    \/ cluster_pass
    \/ cluster_append
    \/ cluster_return
    \/ cluster_reordered

\* a call of cluster_records followed by a call on the same records reordered
ReorderSpec == ClusterInit /\ [][ReorderNext]_vars

---------------------------------------------------------------------------
(* C21: clustering the centroids again. *)

\* the second call, on the centroids, has returned
CentroidsClustered == call = "centroids" /\ pc = "cluster_done"

\* every cluster of the call that has returned holds one record
AllSingle == \A k \in 1..Len(clusters) : Len(clusters[k]) = 1

\* the records lie on one meridian or on one parallel
OnOneLine(records) ==
    \/ \A i, j \in 1..Len(records) : records[i][1] = records[j][1]
    \/ \A i, j \in 1..Len(records) : records[i][2] = records[j][2]

\* C21 as stated: cluster_records run with the same threshold on the
\* centroids of its own result puts every centroid in a cluster of its own.
C21_CentroidsStaySingle == CentroidsClustered => AllSingle

\* C21 as the code has it: the centroids of one result stay apart when the
\* detections lie on one line; off a line two centroids of one result can be
\* within the threshold of each other, and the second run merges them.
C21_CentroidsStaySingleOnOneLine ==
    /\ (CentroidsClustered /\ OnOneLine(previous.records)) => AllSingle
    /\ CentroidsClustered => Len(cr_records) = Len(previous.clusters)

\* three detections on one meridian gave a pair and a single detection,
\* and the second run kept their two centroids apart
C21_Witness ==
    /\ CentroidsClustered
    /\ OnOneLine(previous.records)
    /\ Len(previous.records) = 3
    /\ Len(previous.clusters) = 2
    /\ Len(previous.clusters[1]) = 2
    /\ threshold = 50 * ClusterScale
    /\ Len(clusters) = 2

---------------------------------------------------------------------------
(* C22: the same detections in another order. *)

\* the second call, on the reordered records, has returned
ReorderedClustered == call = "reordered" /\ pc = "cluster_done"

\* the clusters of the first call, each as the set of its labels
FirstPartition ==
    {{previous.clusters[k][i] : i \in 1..Len(previous.clusters[k])} :
        k \in 1..Len(previous.clusters)}

\* the clusters of the second call, each as the set of the labels its
\* records had in the first call
SecondPartition ==
    {{order[clusters[k][i]] : i \in 1..Len(clusters[k])} : k \in 1..Len(clusters)}

\* records i and j of the first call are within the threshold of each other
PairNear(i, j) ==
    haversine_within(Num(previous.records[i][1], 1), Num(previous.records[i][2], 1),
                     previous.records[j][1], previous.records[j][2], threshold)

\* the detections are all within the threshold of each other, or all
\* farther than the threshold from each other
AllNearOrAllFar ==
    \/ \A i, j \in 1..Len(previous.records) : PairNear(i, j)
    \/ \A i, j \in 1..Len(previous.records) : i # j => ~PairNear(i, j)

\* C22 as stated: whatever the order of the detections, cluster_records
\* returns the same clusters, as sets of members.
C22_PartitionOrderIndependent == ReorderedClustered => SecondPartition = FirstPartition

\* C22 as the code has it: every order gives a partition of the same
\* detections, and the same partition when the detections are all within the
\* threshold of each other (one cluster) or all farther apart than the
\* threshold (single detections), as any two detections are; otherwise the
\* partition can depend on the order.
C22_PartitionOrderIndependentWhenUniform ==
    ReorderedClustered =>
        /\ UNION SecondPartition = UNION FirstPartition
        /\ \A a, b \in SecondPartition : a # b => a \cap b = {}
        /\ AllNearOrAllFar => SecondPartition = FirstPartition
        /\ Len(previous.records) <= 2 => SecondPartition = FirstPartition

\* three detections at different places, all within the threshold of each
\* other, were clustered again in reverse order and gave one cluster again
C22_Witness ==
    /\ ReorderedClustered
    /\ threshold = 50
    /\ Len(previous.records) = 3
    /\ order = <<3, 2, 1>>
    /\ previous.records[1] # previous.records[2]
    /\ previous.records[2] # previous.records[3]
    /\ previous.records[1] # previous.records[3]
    /\ AllNearOrAllFar
    /\ Len(clusters) = 1

---------------------------------------------------------------------------
(* C27: a group before and after a detection was added to it. *)

\* sequence s without its i-th item: the group before that detection was added
Without(s, i) == SubSeq(s, 1, i - 1) \o SubSeq(s, i + 1, Len(s))

\* a group labelled unknown for a spread between the two thresholds
GapBand(label, spread) ==
    /\ label = "unknown"
    /\ spread > STATIC_AP_DIST_THRESHOLD
    /\ spread < COTRAVELER_DIST_THRESHOLD

\* C27: a group of three or more detections has at least the max spread of
\* the group of two or more it was before any one of its detections was
\* added; so a group that was co-traveler stays co-traveler, a group that was
\* unknown for a spread between 300 m and 1000 m does not become static, and
\* a MAC that was flagged stays flagged.
C27_AddingNeverShrinksSpread ==
    /\ APC_done =>
          \A n \in 1..Len(classified) :
              LET coords == classified[n].coords
              IN  Len(coords) >= 3 =>
                      \A i \in 1..Len(coords) :
                          LET before == APC_max_dist(Without(coords, i))
                          IN  /\ before <= classified[n].max_dist
                              /\ APC_label(before) = "co-traveler"
                                     => classified[n].classification = "co-traveler"
                              /\ GapBand(APC_label(before), before)
                                     => classified[n].classification # "static"
    /\ CTA_done =>
          \A n \in 1..Len(classified) :
              LET coords == Coords(CTA_groups(frame)[n].g)
              IN  Len(coords) >= 3 =>
                      \A i \in 1..Len(coords) :
                          LET before == CTA_spread(Without(coords, i))
                          IN  /\ before.group_max <= classified[n].max_dist
                              /\ before.classification = "co-traveler"
                                     => classified[n].classification = "co-traveler"
                              /\ GapBand(before.classification, before.group_max)
                                     => classified[n].classification # "static"
    /\ FSA_done =>
          \A n \in 1..Len(FSA_groups) :
              LET g == FSA_groups[n].g
              IN  Len(g) >= 3 =>
                      \A i \in 1..Len(g) :
                          /\ compute_max_distance(Without(g, i)) <= compute_max_distance(g)
                          /\ compute_max_distance(Without(g, i)) >= FLAG_THRESHOLD
                                 => FSA_emitted(FSA_groups[n].key[1]) # {}

\* classify has labelled a group of three detections co-traveler that was
\* unknown, with a spread of 301 m, before its third detection was added
C27_Witness ==
    /\ APC_done
    /\ \E n \in 1..Len(classified) :
          /\ Len(classified[n].coords) = 3
          /\ classified[n].classification = "co-traveler"
          /\ APC_max_dist(Without(classified[n].coords, 3)) = 301

---------------------------------------------------------------------------
(* C28: the best location lies among the detections. *)

\* fraction x lies between the smallest and the largest value of column
\* column of the group
WithinColumn(x, group, column) ==
    LET values == {group[i][column] : i \in 1..Len(group)}
    IN  /\ x.kind = "num"
        /\ x.d > 0
        /\ SetMin(values) * x.d <= x.n
        /\ x.n <= SetMax(values) * x.d

\* the weight classify gives a detection
APC_weight(r) == Max2(0, 130 + fillna_rssi(r.rssi))

\* C28: the best location each estimator returns lies between the smallest
\* and the largest latitude and between the smallest and the largest
\* longitude of the group's detections, and no detection has a negative
\* weight, whether its RSSI is present, missing or below -130 dBm.
C28_EstimateAmongDetections ==
    /\ APC_done =>
          \A n \in 1..Len(classified) :
              LET g == APC_groups(frame)[n].g
              IN  /\ \A i \in 1..Len(g) : APC_weight(g[i]) >= 0
                  /\ classified[n].lat # Empty =>
                         /\ WithinColumn(classified[n].lat, g, "latitude")
                         /\ WithinColumn(classified[n].lon, g, "longitude")
    /\ pc \in {"cta_step7", "cta_categorized"} =>
          \A n \in 1..Len(static_df) :
              LET g == static_groups[n].records
              IN  /\ \A i \in 1..Len(g) : CTA_weights(g)[i] >= 0
                  /\ WithinColumn(static_df[n].best_lat, g, "latitude")
                  /\ WithinColumn(static_df[n].best_lon, g, "longitude")
    /\ SA_done =>
          \A n \in 1..Len(SA_groups) :
              LET g == SA_groups[n].g
              IN  /\ \A i \in 1..Len(g) : SA_weight(g[i].rssi) >= 0
                  /\ \A m \in SA_emitted(SA_groups[n].key) :
                         /\ WithinColumn(aggregated_records[m].BEST_LAT, g, "latitude")
                         /\ WithinColumn(aggregated_records[m].BEST_LON, g, "longitude")

\* classify has placed a group of two detections 300 m apart, one of them
\* with an RSSI below -130 dBm and so without weight, at the other one
C28_Witness ==
    /\ pc = "apc_classified"
    /\ Len(df) = 2
    /\ df[1].rssi = Float(-30)
    /\ df[2].rssi = Float(-140)
    /\ df[1].latitude = 10
    /\ df[2].latitude = 310
    /\ Len(classified) = 1
    /\ classified[1].classification = "static"
    /\ FracEq(classified[1].lat, Num(10, 1))

---------------------------------------------------------------------------
(* C29: what every flagged record has. *)

\* the group of the m-th record of results
FSA_group_of(m) ==
    LET n == CHOOSE n \in 1..Len(FSA_groups) : FSA_groups[n].key = <<results[m].mac>>
    IN  FSA_groups[n].g

\* C29: every record the flagged-signals analysis emits counts at least two
\* detections and has a time range of zero or more, so its confidence is 3
\* or more, and its spread is at least 300 m, so that the distance factor
\* (max_distance - 300) / 9700 is never raised to 0 by the clamp.
C29_FlaggedRecordsFloor ==
    FSA_done =>
        \A m \in 1..Len(results) :
            /\ results[m].detections >= 2
            /\ results[m].detections = Len(FSA_group_of(m))
            /\ results[m].time_range_hours >= 0
            /\ results[m].confidence.d = 10
            /\ results[m].confidence.n >= 30
            /\ compute_max_distance(FSA_group_of(m)) - 300 >= 0
            /\ Max2(compute_max_distance(FSA_group_of(m)) - 300, 0)
                   = compute_max_distance(FSA_group_of(m)) - 300

\* a record of two detections made at the same time exactly 300 m apart was
\* emitted: its confidence is the floor of 3
C29_Witness ==
    /\ FSA_done
    /\ \E m \in 1..Len(results) :
          /\ results[m].detections = 2
          /\ results[m].time_range_hours = 0
          /\ results[m].max_distance_m = 300
          /\ results[m].confidence = Num(30, 10)

---------------------------------------------------------------------------
(* C30: the classified groups on the map. *)

\* build_map has been called
APC_map_called == pc \in {"apc_mapped", "map_raised"}

\* classify has labelled a group co-traveler
HasCotraveler == \E n \in 1..Len(classified) : classified[n].classification = "co-traveler"

\* C30: when classify has labelled a group co-traveler, whose lat and lon it
\* sets to "", Map.load_coordinates validates the coordinates without an
\* error and keeps the row of that group, as it keeps every row whose
\* coordinates are within range.
C30_CotravelerRowKept ==
    (APC_map_called /\ HasCotraveler) =>
        /\ pc = "apc_mapped"
        /\ \A n \in 1..Len(classified) :
               classified[n].classification = "co-traveler" =>
                   \E k \in 1..Len(coordinates_df) :
                       /\ coordinates_df[k].mac = classified[n].mac
                       /\ coordinates_df[k].ssid = classified[n].ssid
                       /\ coordinates_df[k].coords = classified[n].coords

\* without a co-traveler group the frame is validated and every row is kept
MapWithoutCotraveler ==
    (APC_map_called /\ ~HasCotraveler /\ classified # <<>>) =>
        /\ pc = "apc_mapped"
        /\ coordinates_df = load_coordinates(classified)

====
